---------------------------- MODULE Spec2Model ----------------------------
(***************************************************************************)
(* Model of the property filter and the CSV export of the two result       *)
(* views of the AI modules page: the VAE generator (VAEModule) and the     *)
(* SMILES analyzer (SMILESModule).                                         *)
(*                                                                         *)
(* Numbers.  A JavaScript number is modelled by an integer counting        *)
(* hundredths: N(46) is 46, D(46, 7) is 46.07.  Comparison of hundredths   *)
(* is comparison of the numbers, and NumberText writes the decimal text    *)
(* JavaScript's Number-to-string conversion writes for them.               *)
(*                                                                         *)
(* Text.  A JavaScript string is modelled by the sequence of its           *)
(* characters, each a one-character string, so that joining, separators    *)
(* inside a field and line structure are all visible to the checker.       *)
(*                                                                         *)
(* Handlers.  handleFilterChange and exportResults are modelled as the     *)
(* functions they are: each may be called in any state of its component    *)
(* and with any criteria value, whether or not the page currently renders  *)
(* the button that calls it (the Export button and the filter panel are    *)
(* rendered only for a non-empty source collection).  The source           *)
(* collections are drawn from the record types of the source: the          *)
(* generator's from mockMolecules and one heavier molecule, the analyzer's *)
(* from results of mockAnalyzeSMILES.  Math.random() is a nondeterministic *)
(* choice, here taken among the sampled draws.                             *)
(*                                                                         *)
(* Observations.  toast holds the notifications and download the file of   *)
(* the handler that ran last; criteria holds the argument of the last      *)
(* handleFilterChange call.                                                *)
(***************************************************************************)
EXTENDS Integers, Sequences, FiniteSets

(***************************************************************************)
(* Bounds of the model.                                                    *)
(***************************************************************************)
\* the longest source collection (generatedMolecules, batchResults)
MaxRecords == 2

(***************************************************************************)
(* Numbers and text.                                                       *)
(***************************************************************************)
N(i) == i * 100

D(i, hundredths) == i * 100 + hundredths

DigitChars == <<"0", "1", "2", "3", "4", "5", "6", "7", "8", "9">>

RECURSIVE NatText(_)
\* the decimal digits of a natural number
NatText(n) ==
    IF n < 10 THEN <<DigitChars[n + 1]>>
    ELSE Append(NatText(n \div 10), DigitChars[(n % 10) + 1])

\* Number.prototype.toString of the number h/100: sign, integer part, and
\* the fraction without trailing zeros, no fraction at all for an integer
NumberText(h) ==
    LET a    == IF h < 0 THEN 0 - h ELSE h
        frac == a % 100
        sign == IF h < 0 THEN <<"-">> ELSE <<>>
        tail == IF frac = 0 THEN <<>>
                ELSE IF frac % 10 = 0 THEN <<".", DigitChars[(frac \div 10) + 1]>>
                ELSE <<".", DigitChars[(frac \div 10) + 1], DigitChars[(frac % 10) + 1]>>
    IN  sign \o NatText(a \div 100) \o tail

\* String(true), String(false)
BooleanText(b) ==
    IF b THEN <<"t", "r", "u", "e">> ELSE <<"f", "a", "l", "s", "e">>

\* Math.floor of the number h/100
Floor(h) == (h \div 100) * 100

\* Array.prototype.join: the texts of parts with sep between neighbours
Join(parts, sep) ==
    LET J[i \in 0..Len(parts)] ==
            IF i = 0 THEN <<>>
            ELSE IF i = 1 THEN parts[1]
            ELSE J[i - 1] \o sep \o parts[i]
    IN  J[Len(parts)]

\* String.prototype.includes for a single character
Includes(text, ch) == \E i \in DOMAIN text : text[i] = ch


(***************************************************************************)
(* FilterCriteria, the value PropertyFilter passes to onFilterChange.      *)
(* A range [min, max] is the pair <<min, max>>.                            *)
(***************************************************************************)
\* the initial state of the filter panel, and its state after resetFilters
DefaultCriteria ==
    [mwRange |-> <<N(0), N(1000)>>, logpRange |-> <<N(-5), N(5)>>,
     hbdMax |-> N(10), hbaMax |-> N(20), tpsaRange |-> <<N(0), N(200)>>,
     lipinskiCompliant |-> FALSE, qedMin |-> N(0), sasMax |-> N(10)]

\* the value of the criteria variable before any filter was applied
NoCriteria == [none |-> TRUE]

\* the criteria the handlers are exercised with: the fields the analyzer
\* reads (mwRange, hbaMax, lipinskiCompliant) in every combination, the
\* other fields the generator reads in every combination, and sasMax.
\* <<N(500), N(100)>> and <<N(200), N(0)>> are inverted ranges; N(-1) is a
\* negative maximum.
CriteriaSamples ==
    { [DefaultCriteria EXCEPT !.mwRange = mw, !.hbaMax = hba,
                              !.lipinskiCompliant = lip] :
        mw \in {<<N(0), N(1000)>>, <<N(0), N(500)>>, <<N(500), N(100)>>},
        hba \in {N(20), N(3), N(-1)}, lip \in BOOLEAN }
    \cup
    { [DefaultCriteria EXCEPT !.logpRange = logp, !.hbdMax = hbd,
                              !.tpsaRange = tpsa, !.qedMin = qed] :
        logp \in {<<N(-5), N(5)>>, <<D(1, 67), N(5)>>},
        hbd \in {N(10), N(0)},
        tpsa \in {<<N(0), N(200)>>, <<N(0), D(63, 60)>>},
        qed \in {N(0), D(0, 89)} }
    \cup
    { [DefaultCriteria EXCEPT !.sasMax = N(1)],
      [DefaultCriteria EXCEPT !.hbdMax = N(-1)],
      [DefaultCriteria EXCEPT !.tpsaRange = <<N(200), N(0)>>] }

(***************************************************************************)
(* The generator view: GeneratedMolecule and the filter of VAEModule.      *)
(***************************************************************************)
\* the three molecules of mockMolecules, in the order of the source
mockMolecules ==
    << [id |-> "1",
        smiles |-> <<"C","C","(","=","O",")","O","C","1","=","C","C","=","C",
                     "C","=","C","1","C","(","=","O",")","O">>,
        properties |-> [mw |-> D(180, 16), logp |-> D(1, 19), hbd |-> N(1),
                        hba |-> N(4), tpsa |-> D(63, 60)],
        drugLikeness |-> D(0, 89)],
       [id |-> "2",
        smiles |-> <<"C","N","1","C","C","N","(","C","C","1",")","C","2","=",
                     "C","C","=","C","(","C","=","C","2",")","O","C">>,
        properties |-> [mw |-> D(206, 28), logp |-> D(1, 84), hbd |-> N(0),
                        hba |-> N(3), tpsa |-> D(15, 30)],
        drugLikeness |-> D(0, 92)],
       [id |-> "3",
        smiles |-> <<"C","C","1","=","C","C","=","C","(","C","=","C","1",")",
                     "S","(","=","O",")","(","=","O",")","N","C","2","=","C",
                     "C","=","C","C","=","N","2">>,
        properties |-> [mw |-> D(248, 30), logp |-> D(1, 67), hbd |-> N(1),
                        hba |-> N(4), tpsa |-> D(68, 40)],
        drugLikeness |-> D(0, 76)] >>

\* a GeneratedMolecule above every Lipinski weight limit: the first mock
\* molecule with a molecular weight of 600
heavyMolecule ==
    [mockMolecules[1] EXCEPT !.id = "4", !.properties.mw = N(600)]

\* the molecules the generator's handlers are exercised on
MoleculeSamples ==
    {mockMolecules[i] : i \in DOMAIN mockMolecules} \cup {heavyMolecule}

\* VAE_matches with hba < hbaMax in place of hba <= hbaMax
VAE_matchesStrictUpper(mol, criteria) ==
    LET mw   == mol.properties.mw
        logp == mol.properties.logp
        hbd  == mol.properties.hbd
        hba  == mol.properties.hba
        tpsa == mol.properties.tpsa
    IN  /\ mw >= criteria.mwRange[1] /\ mw <= criteria.mwRange[2]
        /\ logp >= criteria.logpRange[1] /\ logp <= criteria.logpRange[2]
        /\ hbd <= criteria.hbdMax
        /\ hba < criteria.hbaMax
        /\ tpsa >= criteria.tpsaRange[1] /\ tpsa <= criteria.tpsaRange[2]
        /\ mol.drugLikeness >= criteria.qedMin

\* VAE_matches with the endpoints of an inverted mwRange swapped
VAE_matchesSwappedRange(mol, criteria) ==
    LET mw   == mol.properties.mw
        logp == mol.properties.logp
        hbd  == mol.properties.hbd
        hba  == mol.properties.hba
        tpsa == mol.properties.tpsa
        lo   == IF criteria.mwRange[1] <= criteria.mwRange[2]
                THEN criteria.mwRange[1] ELSE criteria.mwRange[2]
        hi   == IF criteria.mwRange[1] <= criteria.mwRange[2]
                THEN criteria.mwRange[2] ELSE criteria.mwRange[1]
    IN  /\ mw >= lo /\ mw <= hi
        /\ logp >= criteria.logpRange[1] /\ logp <= criteria.logpRange[2]
        /\ hbd <= criteria.hbdMax
        /\ hba <= criteria.hbaMax
        /\ tpsa >= criteria.tpsaRange[1] /\ tpsa <= criteria.tpsaRange[2]
        /\ mol.drugLikeness >= criteria.qedMin

\* VAE_matches reading lipinskiCompliant as well: with the switch on, a
\* molecule above the Lipinski weight limit of 500 does not pass
VAE_matchesLipinski(mol, criteria) ==
    /\ mol.properties.mw >= criteria.mwRange[1]
    /\ mol.properties.mw <= criteria.mwRange[2]
    /\ mol.properties.logp >= criteria.logpRange[1]
    /\ mol.properties.logp <= criteria.logpRange[2]
    /\ mol.properties.hbd <= criteria.hbdMax
    /\ mol.properties.hba <= criteria.hbaMax
    /\ mol.properties.tpsa >= criteria.tpsaRange[1]
    /\ mol.properties.tpsa <= criteria.tpsaRange[2]
    /\ mol.drugLikeness >= criteria.qedMin
    /\ (criteria.lipinskiCompliant => mol.properties.mw <= N(500))

\* the callback of generatedMolecules.filter in VAEModule.handleFilterChange
VAE_matches(mol, criteria) ==
    LET mw   == mol.properties.mw
        logp == mol.properties.logp
        hbd  == mol.properties.hbd
        hba  == mol.properties.hba
        tpsa == mol.properties.tpsa
    IN  /\ mw >= criteria.mwRange[1] /\ mw <= criteria.mwRange[2]
        /\ logp >= criteria.logpRange[1] /\ logp <= criteria.logpRange[2]
        /\ hbd <= criteria.hbdMax
        /\ hba <= criteria.hbaMax
        /\ tpsa >= criteria.tpsaRange[1] /\ tpsa <= criteria.tpsaRange[2]
        /\ mol.drugLikeness >= criteria.qedMin

\* generatedMolecules.filter(...): the molecules that match, visited from
\* the first index to the last and appended to a new array
VAE_filter(molecules, criteria) ==
    LET F[i \in 0..Len(molecules)] ==
            IF i = 0 THEN <<>>
            ELSE IF VAE_matches(molecules[i], criteria)
                 THEN Append(F[i - 1], molecules[i])
                 ELSE F[i - 1]
    IN  F[Len(molecules)]


(***************************************************************************)
(* The analyzer view: SMILESAnalysis and the filter of SMILESModule.       *)
(***************************************************************************)
\* mockAnalyzeSMILES with a violation count of 0, 3 or 6 in place of 0, 1
\* or 2
mockAnalyzeSMILESTripled(smiles, draws) ==
    [smiles |-> smiles,
     isValid |-> Len(smiles) > 5 /\ ~Includes(smiles, "X"),
     molecularWeight |-> draws.mw,
     atomCount |-> draws.atomCount,
     bondCount |-> Floor((draws.atomCount * 12) \div 10),
     rings |-> draws.rings,
     aromaticRings |-> draws.aromaticRings,
     heteroatoms |-> draws.heteroatoms,
     rotatable |-> draws.rotatable,
     formula |-> <<"C">> \o NumberText(Floor((draws.atomCount * 6) \div 10))
                 \o <<"H">> \o NumberText(Floor((draws.atomCount * 8) \div 10))
                 \o <<"N">> \o NumberText(draws.nitrogens)
                 \o <<"O">> \o NumberText(draws.oxygens),
     lipinski |-> [mw |-> draws.mw <= N(500), logp |-> TRUE,
                   hbd |-> draws.hbd, hba |-> draws.hba,
                   violations |-> draws.violations * 3]]

\* mockAnalyzeSMILES: draws holds the values of the Math.random()
\* expressions of one call, in the order of the source:
\*   atomCount 10..59, mw 150..549, rings 0..3, aromaticRings 0..2,
\*   heteroatoms 0..7, rotatable 0..9, nitrogens 0..2, oxygens 0..4,
\*   hbd and hba (booleans), violations 0..2
mockAnalyzeSMILES(smiles, draws) ==
    [smiles |-> smiles,
     isValid |-> Len(smiles) > 5 /\ ~Includes(smiles, "X"),
     molecularWeight |-> draws.mw,
     atomCount |-> draws.atomCount,
     bondCount |-> Floor((draws.atomCount * 12) \div 10),
     rings |-> draws.rings,
     aromaticRings |-> draws.aromaticRings,
     heteroatoms |-> draws.heteroatoms,
     rotatable |-> draws.rotatable,
     formula |-> <<"C">> \o NumberText(Floor((draws.atomCount * 6) \div 10))
                 \o <<"H">> \o NumberText(Floor((draws.atomCount * 8) \div 10))
                 \o <<"N">> \o NumberText(draws.nitrogens)
                 \o <<"O">> \o NumberText(draws.oxygens),
     lipinski |-> [mw |-> draws.mw <= N(500), logp |-> TRUE,
                   hbd |-> draws.hbd, hba |-> draws.hba,
                   violations |-> draws.violations]]

\* the least value of every draw
LeastDraws ==
    [atomCount |-> N(10), mw |-> N(150), rings |-> N(0),
     aromaticRings |-> N(0), heteroatoms |-> N(0), rotatable |-> N(0),
     nitrogens |-> N(0), oxygens |-> N(0), hbd |-> FALSE, hba |-> FALSE,
     violations |-> N(0)]

\* the analyses the analyzer's handlers are exercised on: results of
\* mockAnalyzeSMILES at the ends and at the Lipinski limit of the molecular
\* weight, with and without heteroatoms and violations; the input is any
\* line of the batch text area, and the last one holds two commas
AnalysisSamples ==
    { mockAnalyzeSMILES(<<"c","1","c","c","c","c","c","1">>, LeastDraws),
      mockAnalyzeSMILES(<<"C","C","O">>,
          [LeastDraws EXCEPT !.mw = N(500), !.heteroatoms = N(7),
                             !.violations = N(2), !.oxygens = N(1)]),
      mockAnalyzeSMILES(<<"c","1","c","c","c","c","c","1">>,
          [LeastDraws EXCEPT !.mw = N(549), !.heteroatoms = N(3),
                             !.violations = N(1), !.hbd = TRUE,
                             !.rings = N(1)]),
      mockAnalyzeSMILES(<<"C","C","O">>,
          [LeastDraws EXCEPT !.mw = N(300), !.heteroatoms = N(3),
                             !.hba = TRUE, !.rotatable = N(9)]),
      mockAnalyzeSMILES(<<"C",",","C",",","O">>,
          [LeastDraws EXCEPT !.mw = N(200), !.heteroatoms = N(1)]) }

\* SMILES_matches with the two arms of the Lipinski conditional exchanged
SMILES_matchesSwappedArms(result, criteria) ==
    LET mw == result.molecularWeight
    IN  /\ mw >= criteria.mwRange[1] /\ mw <= criteria.mwRange[2]
        /\ result.heteroatoms <= criteria.hbaMax
        /\ result.lipinski.violations <=
               (IF criteria.lipinskiCompliant THEN N(4) ELSE N(0))

\* SMILES_matches with molecularWeight < mwRange[1] in place of <=
SMILES_matchesStrictUpper(result, criteria) ==
    LET mw == result.molecularWeight
    IN  /\ mw >= criteria.mwRange[1] /\ mw < criteria.mwRange[2]
        /\ result.heteroatoms <= criteria.hbaMax
        /\ result.lipinski.violations <=
               (IF criteria.lipinskiCompliant THEN N(0) ELSE N(4))

\* SMILES_matches allowing one violation, not four, when lipinskiCompliant
\* is off
SMILES_matchesOneViolation(result, criteria) ==
    LET mw == result.molecularWeight
    IN  /\ mw >= criteria.mwRange[1] /\ mw <= criteria.mwRange[2]
        /\ result.heteroatoms <= criteria.hbaMax
        /\ result.lipinski.violations <=
               (IF criteria.lipinskiCompliant THEN N(0) ELSE N(1))

\* SMILES_matches reading a negative hbaMax as no limit
SMILES_matchesNegativeUnlimited(result, criteria) ==
    LET mw == result.molecularWeight
    IN  /\ mw >= criteria.mwRange[1] /\ mw <= criteria.mwRange[2]
        /\ (criteria.hbaMax < N(0) \/ result.heteroatoms <= criteria.hbaMax)
        /\ result.lipinski.violations <=
               (IF criteria.lipinskiCompliant THEN N(0) ELSE N(4))

\* the callback of batchResults.filter in SMILESModule.handleFilterChange
SMILES_matches(result, criteria) ==
    LET mw == result.molecularWeight
    IN  /\ mw >= criteria.mwRange[1] /\ mw <= criteria.mwRange[2]
        /\ result.heteroatoms <= criteria.hbaMax
        /\ result.lipinski.violations <=
               (IF criteria.lipinskiCompliant THEN N(0) ELSE N(4))

\* SMILES_filter collecting the matches in front of, not behind, the
\* earlier ones
SMILES_filterPrepending(results, criteria) ==
    LET F[i \in 0..Len(results)] ==
            IF i = 0 THEN <<>>
            ELSE IF SMILES_matches(results[i], criteria)
                 THEN <<results[i]>> \o F[i - 1]
                 ELSE F[i - 1]
    IN  F[Len(results)]

\* batchResults.filter(...): the results that match, visited from the
\* first index to the last and appended to a new array
SMILES_filter(results, criteria) ==
    LET F[i \in 0..Len(results)] ==
            IF i = 0 THEN <<>>
            ELSE IF SMILES_matches(results[i], criteria)
                 THEN Append(F[i - 1], results[i])
                 ELSE F[i - 1]
    IN  F[Len(results)]

(***************************************************************************)
(* CSV export.  A flat record is the sequence of its <<key, value>> pairs  *)
(* in insertion order.  A value carries its JavaScript type.               *)
(***************************************************************************)
StringValue(text) == <<"string", text>>

NumberValue(h) == <<"number", h>>

BooleanValue(b) == <<"boolean", b>>

\* ValueText with a string that holds a comma put between double quotes
ValueTextQuoted(value) ==
    CASE value[1] = "string"  ->
             IF Includes(value[2], ",")
             THEN <<"\"">> \o value[2] \o <<"\"">>
             ELSE value[2]
      [] value[1] = "number"  -> NumberText(value[2])
      [] value[1] = "boolean" -> BooleanText(value[2])

\* String(value), the conversion Array.prototype.join applies to an element
ValueText(value) ==
    CASE value[1] = "string"  -> value[2]
      [] value[1] = "number"  -> NumberText(value[2])
      [] value[1] = "boolean" -> BooleanText(value[2])

\* Object.keys(row)
Keys(row) == [i \in DOMAIN row |-> row[i][1]]

\* Object.values(row)
Values(row) == [i \in DOMAIN row |-> row[i][2]]

\* Object.values(row).join(',')
RowText(row) ==
    Join([i \in DOMAIN row |-> ValueText(Values(row)[i])], <<",">>)

\* ToCSV with a line break after the last row as well
ToCSVTrailingBreak(data) ==
    Join(<<Join(Keys(data[1]), <<",">>)>> \o
         [i \in DOMAIN data |-> RowText(data[i])], <<"\n">>) \o <<"\n">>

\* [Object.keys(data[0]).join(','),
\*  ...data.map(row => Object.values(row).join(','))].join('\n')
ToCSV(data) ==
    Join(<<Join(Keys(data[1]), <<",">>)>> \o
         [i \in DOMAIN data |-> RowText(data[i])], <<"\n">>)

\* SMILES_exportRow without the Formula key for an analysis that is not
\* valid
SMILES_exportRowFormulaIfValid(result) ==
    LET IsNotFormula(pair) == pair[1] # <<"F","o","r","m","u","l","a">>
        row ==
        << <<<<"S","M","I","L","E","S">>, StringValue(result.smiles)>>,
           <<<<"V","a","l","i","d">>, BooleanValue(result.isValid)>>,
           <<<<"M","o","l","e","c","u","l","a","r","W","e","i","g","h","t">>,
             NumberValue(result.molecularWeight)>>,
           <<<<"F","o","r","m","u","l","a">>, StringValue(result.formula)>>,
           <<<<"A","t","o","m","s">>, NumberValue(result.atomCount)>>,
           <<<<"B","o","n","d","s">>, NumberValue(result.bondCount)>>,
           <<<<"R","i","n","g","s">>, NumberValue(result.rings)>>,
           <<<<"A","r","o","m","a","t","i","c","R","i","n","g","s">>,
             NumberValue(result.aromaticRings)>>,
           <<<<"H","e","t","e","r","o","a","t","o","m","s">>,
             NumberValue(result.heteroatoms)>>,
           <<<<"R","o","t","a","t","a","b","l","e","B","o","n","d","s">>,
             NumberValue(result.rotatable)>>,
           <<<<"L","i","p","i","n","s","k","i","V","i","o","l","a","t","i","o",
               "n","s">>, NumberValue(result.lipinski.violations)>> >>
    IN  IF result.isValid THEN row ELSE SelectSeq(row, IsNotFormula)

\* the row SMILESModule.exportResults builds of one analysis
SMILES_exportRow(result) ==
    << <<<<"S","M","I","L","E","S">>, StringValue(result.smiles)>>,
       <<<<"V","a","l","i","d">>, BooleanValue(result.isValid)>>,
       <<<<"M","o","l","e","c","u","l","a","r","W","e","i","g","h","t">>,
         NumberValue(result.molecularWeight)>>,
       <<<<"F","o","r","m","u","l","a">>, StringValue(result.formula)>>,
       <<<<"A","t","o","m","s">>, NumberValue(result.atomCount)>>,
       <<<<"B","o","n","d","s">>, NumberValue(result.bondCount)>>,
       <<<<"R","i","n","g","s">>, NumberValue(result.rings)>>,
       <<<<"A","r","o","m","a","t","i","c","R","i","n","g","s">>,
         NumberValue(result.aromaticRings)>>,
       <<<<"H","e","t","e","r","o","a","t","o","m","s">>,
         NumberValue(result.heteroatoms)>>,
       <<<<"R","o","t","a","t","a","b","l","e","B","o","n","d","s">>,
         NumberValue(result.rotatable)>>,
       <<<<"L","i","p","i","n","s","k","i","V","i","o","l","a","t","i","o",
           "n","s">>, NumberValue(result.lipinski.violations)>> >>

\* the row VAEModule.exportResults builds of one molecule
VAE_exportRow(mol) ==
    << <<<<"S","M","I","L","E","S">>, StringValue(mol.smiles)>>,
       <<<<"D","r","u","g","L","i","k","e","n","e","s","s">>,
         NumberValue(mol.drugLikeness)>>,
       <<<<"M","o","l","e","c","u","l","a","r","W","e","i","g","h","t">>,
         NumberValue(mol.properties.mw)>>,
       <<<<"L","o","g","P">>, NumberValue(mol.properties.logp)>>,
       <<<<"H","B","D">>, NumberValue(mol.properties.hbd)>>,
       <<<<"H","B","A">>, NumberValue(mol.properties.hba)>>,
       <<<<"T","P","S","A">>, NumberValue(mol.properties.tpsa)>> >>

\* const data = batchResults.map(result => ({...}))
SMILES_exportData(results) ==
    [i \in DOMAIN results |-> SMILES_exportRow(results[i])]

\* const data = generatedMolecules.map(mol => ({...}))
VAE_exportData(molecules) ==
    [i \in DOMAIN molecules |-> VAE_exportRow(molecules[i])]

(***************************************************************************)
(* State.                                                                  *)
(***************************************************************************)
VARIABLES
    activeTab,           \* the module the Tabs of AIModules show
    generatedMolecules,  \* VAEModule: the source collection
    filteredMolecules,   \* VAEModule: the result of the last filter
    vaeShowFilters,      \* VAEModule.showFilters
    batchResults,        \* SMILESModule: the source collection
    filteredResults,     \* SMILESModule: the result of the last filter
    smilesShowFilters,   \* SMILESModule.showFilters
    criteria,            \* the argument of the last handleFilterChange
    toast,               \* the notifications of the last handler
    download,            \* the file the last handler saved
    thrown,              \* the step of the last exportResults that threw
    modelStatus,         \* VAEModule.modelStatus
    isGenerating,        \* VAEModule.isGenerating
    progress,            \* VAEModule.progress
    epochs,              \* VAEModule.epochs
    batchSize,           \* VAEModule.batchSize
    vaeTasks,            \* VAEModule: the calls of trainModel and
                         \* generateMolecules suspended at an await
    panel,               \* the state of the mounted PropertyFilter
    inputSMILES,         \* SMILESModule.inputSMILES
    batchInput,          \* SMILESModule.batchInput
    analysis,            \* SMILESModule.analysis
    isAnalyzing,         \* SMILESModule.isAnalyzing
    smilesTasks,         \* SMILESModule: the calls of analyzeSingle and
                         \* analyzeBatch suspended at an await
    isTraining,          \* GANModule.isTraining
    currentEpoch,        \* GANModule.currentEpoch
    metrics,             \* GANModule.metrics
    trainingHistory,     \* GANModule.trainingHistory
    convergenceStatus,   \* GANModule.convergenceStatus
    ganTasks             \* GANModule: the calls of startTraining suspended
                         \* at an await

\* the analysis state of SMILESModule
smilesRun ==
    <<inputSMILES, batchInput, analysis, isAnalyzing, smilesTasks>>

\* the state of GANModule
ganRun ==
    <<isTraining, currentEpoch, metrics, trainingHistory, convergenceStatus,
      ganTasks>>

\* the training and generation state of VAEModule
vaeRun ==
    <<modelStatus, isGenerating, progress, epochs, batchSize, vaeTasks>>

vars ==
    <<activeTab, generatedMolecules, filteredMolecules, vaeShowFilters,
      batchResults, filteredResults, smilesShowFilters, criteria, toast,
      download, thrown, vaeRun, panel, smilesRun, ganRun>>

\* nothing saved
NoDownload == [name |-> "", text |-> <<>>]

\* the steps of the try block of exportResults, each of which may throw:
\* building the rows and the text, creating the Blob, its URL and the
\* anchor, clicking the anchor, revoking the URL
ExportSteps == {"rows", "object", "click", "revoke"}

\* no analysis: the null of useState<SMILESAnalysis | null>(null)
NoAnalysis == [none |-> TRUE]

\* no metrics: the null of useState<TrainingMetrics | null>(null)
NoMetrics == [none |-> TRUE]

\* the useState initial values of the analysis state of SMILESModule
SMILES_runInitial ==
    /\ inputSMILES = <<>>
    /\ batchInput = <<>>
    /\ analysis = NoAnalysis
    /\ isAnalyzing = FALSE
    /\ smilesTasks = <<>>

\* the useState initial values of GANModule
GAN_initial ==
    /\ isTraining = FALSE
    /\ currentEpoch = 0
    /\ metrics = NoMetrics
    /\ trainingHistory = <<>>
    /\ convergenceStatus = "stable"
    /\ ganTasks = <<>>

\* the useState initial values of PropertyFilter
PANEL_initial ==
    [mwRange |-> <<N(0), N(1000)>>, logpRange |-> <<N(-5), N(5)>>,
     hbdMax |-> <<N(10)>>, hbaMax |-> <<N(20)>>,
     tpsaRange |-> <<N(0), N(200)>>, lipinskiCompliant |-> FALSE,
     qedMin |-> <<N(0)>>, sasMax |-> <<N(10)>>]

Toast(title, variant) == [title |-> title, variant |-> variant]

\* the sequences over S of at most n elements
SeqsUpTo(S, n) == UNION { [1..k -> S] : k \in 0..n }

\* what the generator view lists: line 891
VAE_displayed ==
    IF vaeShowFilters THEN filteredMolecules ELSE generatedMolecules

\* what the analyzer view lists: line 522
SMILES_displayed ==
    IF smilesShowFilters THEN filteredResults ELSE batchResults

(***************************************************************************)
(* Init: one of the two views is open and holds a source collection; no    *)
(* filter was applied and nothing was exported.  The generator view has    *)
(* run its effect (filteredMolecules follows generatedMolecules); the      *)
(* analyzer view has no such effect and filteredResults is still empty.    *)
(***************************************************************************)
Init ==
    /\ activeTab \in {"vae", "smiles"}
    /\ generatedMolecules \in
           IF activeTab = "vae" THEN SeqsUpTo(MoleculeSamples, MaxRecords)
           ELSE {<<>>}
    /\ filteredMolecules = generatedMolecules
    /\ vaeShowFilters = FALSE
    /\ batchResults \in
           IF activeTab = "smiles" THEN SeqsUpTo(AnalysisSamples, MaxRecords)
           ELSE {<<>>}
    /\ filteredResults = <<>>
    /\ smilesShowFilters = FALSE
    /\ criteria = NoCriteria
    /\ toast = <<>>
    /\ download = NoDownload
    /\ thrown = "none"
    /\ modelStatus = IF activeTab = "vae" THEN "trained" ELSE "untrained"
    /\ isGenerating = FALSE
    /\ progress = N(0)
    /\ epochs = <<100>>
    /\ batchSize = <<10>>
    /\ vaeTasks = <<>>
    /\ panel = PANEL_initial
    /\ SMILES_runInitial
    /\ GAN_initial

(***************************************************************************)
(* The handlers of VAEModule.                                              *)
(***************************************************************************)
\* VAE_handleFilterChange filtering the list the last filter left, not the
\* source collection
VAE_handleFilterChangeNarrowing(c) ==
    /\ activeTab = "vae"
    /\ filteredMolecules' = VAE_filter(filteredMolecules, c)
    /\ criteria' = c
    /\ toast' = <<>>
    /\ download' = NoDownload
    /\ thrown' = "none"
    /\ UNCHANGED <<vaeRun, panel, smilesRun, ganRun>>
    /\ UNCHANGED <<activeTab, generatedMolecules, vaeShowFilters,
                   batchResults, filteredResults, smilesShowFilters>>

\* VAE_handleFilterChange storing the result in the source collection too
VAE_handleFilterChangeInPlace(c) ==
    /\ activeTab = "vae"
    /\ filteredMolecules' = VAE_filter(generatedMolecules, c)
    /\ generatedMolecules' = VAE_filter(generatedMolecules, c)
    /\ criteria' = c
    /\ toast' = <<>>
    /\ download' = NoDownload
    /\ thrown' = "none"
    /\ UNCHANGED <<vaeRun, panel, smilesRun, ganRun>>
    /\ UNCHANGED <<activeTab, vaeShowFilters, batchResults, filteredResults,
                   smilesShowFilters>>

VAE_handleFilterChange(c) ==
    /\ activeTab = "vae"
    /\ filteredMolecules' = VAE_filter(generatedMolecules, c)
    /\ criteria' = c
    /\ toast' = <<>>
    /\ download' = NoDownload
    /\ thrown' = "none"
    /\ UNCHANGED <<vaeRun, panel, smilesRun, ganRun>>
    /\ UNCHANGED <<activeTab, generatedMolecules, vaeShowFilters,
                   batchResults, filteredResults, smilesShowFilters>>

\* onClick={() => setShowFilters(!showFilters)}
VAE_toggleFilters ==
    /\ activeTab = "vae"
    /\ vaeShowFilters' = ~vaeShowFilters
    /\ toast' = <<>>
    /\ download' = NoDownload
    /\ thrown' = "none"
    /\ UNCHANGED <<vaeRun, panel, smilesRun, ganRun>>
    /\ UNCHANGED <<activeTab, generatedMolecules, filteredMolecules,
                   batchResults, filteredResults, smilesShowFilters,
                   criteria>>

\* VAE_exportResults with the 'Export Complete' notification emitted before
\* the URL is revoked
VAE_exportResultsEarlyToast ==
    /\ activeTab = "vae"
    /\ IF Len(generatedMolecules) = 0
       THEN /\ toast' = <<Toast("No Data to Export", "destructive")>>
            /\ download' = NoDownload
            /\ thrown' = "none"
       ELSE \E failure \in ExportSteps \cup {"none"} :
              /\ thrown' = failure
              /\ download' =
                     IF failure \in {"none", "revoke"}
                     THEN [name |-> "vae_generated_molecules.csv",
                           text |-> ToCSV(VAE_exportData(generatedMolecules))]
                     ELSE NoDownload
              /\ toast' =
                     CASE failure = "none" ->
                              <<Toast("Export Complete", "default")>>
                       [] failure = "revoke" ->
                              <<Toast("Export Complete", "default"),
                                Toast("Export Failed", "destructive")>>
                       [] OTHER -> <<Toast("Export Failed", "destructive")>>
    /\ UNCHANGED <<vaeRun, panel, smilesRun, ganRun>>
    /\ UNCHANGED <<activeTab, generatedMolecules, filteredMolecules,
                   vaeShowFilters, batchResults, filteredResults,
                   smilesShowFilters, criteria>>

\* exportResults: the early return for an empty collection, then the try
\* block; failure is the step of the block that threw, and the catch block
\* emits 'Export Failed'.  The file is saved once the anchor was clicked.
VAE_exportResults ==
    /\ activeTab = "vae"
    /\ IF Len(generatedMolecules) = 0
       THEN /\ toast' = <<Toast("No Data to Export", "destructive")>>
            /\ download' = NoDownload
            /\ thrown' = "none"
       ELSE \E failure \in ExportSteps \cup {"none"} :
              /\ thrown' = failure
              /\ download' =
                     IF failure \in {"none", "revoke"}
                     THEN [name |-> "vae_generated_molecules.csv",
                           text |-> ToCSV(VAE_exportData(generatedMolecules))]
                     ELSE NoDownload
              /\ toast' =
                     IF failure = "none"
                     THEN <<Toast("Export Complete", "default")>>
                     ELSE <<Toast("Export Failed", "destructive")>>
    /\ UNCHANGED <<vaeRun, panel, smilesRun, ganRun>>
    /\ UNCHANGED <<activeTab, generatedMolecules, filteredMolecules,
                   vaeShowFilters, batchResults, filteredResults,
                   smilesShowFilters, criteria>>

(***************************************************************************)
(* The handlers of SMILESModule.                                           *)
(***************************************************************************)
SMILES_handleFilterChange(c) ==
    /\ activeTab = "smiles"
    /\ filteredResults' = SMILES_filter(batchResults, c)
    /\ criteria' = c
    /\ toast' = <<>>
    /\ download' = NoDownload
    /\ thrown' = "none"
    /\ UNCHANGED <<vaeRun, panel, smilesRun, ganRun>>
    /\ UNCHANGED <<activeTab, generatedMolecules, filteredMolecules,
                   vaeShowFilters, batchResults, smilesShowFilters>>

\* onClick={() => setShowFilters(!showFilters)}
SMILES_toggleFilters ==
    /\ activeTab = "smiles"
    /\ smilesShowFilters' = ~smilesShowFilters
    /\ toast' = <<>>
    /\ download' = NoDownload
    /\ thrown' = "none"
    /\ UNCHANGED <<vaeRun, panel, smilesRun, ganRun>>
    /\ UNCHANGED <<activeTab, generatedMolecules, filteredMolecules,
                   vaeShowFilters, batchResults, filteredResults, criteria>>

\* SMILES_exportResults without the early return for an empty collection:
\* Object.keys(data[0]) then throws and the catch block reports it
SMILES_exportResultsUnguarded ==
    /\ activeTab = "smiles"
    /\ IF Len(batchResults) = 0
       THEN /\ toast' = <<Toast("Export Failed", "destructive")>>
            /\ download' = NoDownload
            /\ thrown' = "rows"
       ELSE \E failure \in ExportSteps \cup {"none"} :
              /\ thrown' = failure
              /\ download' =
                     IF failure \in {"none", "revoke"}
                     THEN [name |-> "smiles_analysis_results.csv",
                           text |-> ToCSV(SMILES_exportData(batchResults))]
                     ELSE NoDownload
              /\ toast' =
                     IF failure = "none"
                     THEN <<Toast("Export Complete", "default")>>
                     ELSE <<Toast("Export Failed", "destructive")>>
    /\ UNCHANGED <<vaeRun, panel, smilesRun, ganRun>>
    /\ UNCHANGED <<activeTab, generatedMolecules, filteredMolecules,
                   vaeShowFilters, batchResults, filteredResults,
                   smilesShowFilters, criteria>>

\* exportResults: the early return for an empty collection, then the try
\* block; failure is the step of the block that threw, and the catch block
\* emits 'Export Failed'.  The file is saved once the anchor was clicked.
SMILES_exportResults ==
    /\ activeTab = "smiles"
    /\ IF Len(batchResults) = 0
       THEN /\ toast' = <<Toast("No Data to Export", "destructive")>>
            /\ download' = NoDownload
            /\ thrown' = "none"
       ELSE \E failure \in ExportSteps \cup {"none"} :
              /\ thrown' = failure
              /\ download' =
                     IF failure \in {"none", "revoke"}
                     THEN [name |-> "smiles_analysis_results.csv",
                           text |-> ToCSV(SMILES_exportData(batchResults))]
                     ELSE NoDownload
              /\ toast' =
                     IF failure = "none"
                     THEN <<Toast("Export Complete", "default")>>
                     ELSE <<Toast("Export Failed", "destructive")>>
    /\ UNCHANGED <<vaeRun, panel, smilesRun, ganRun>>
    /\ UNCHANGED <<activeTab, generatedMolecules, filteredMolecules,
                   vaeShowFilters, batchResults, filteredResults,
                   smilesShowFilters, criteria>>

Next ==
    \/ \E c \in CriteriaSamples : VAE_handleFilterChange(c)
    \/ VAE_toggleFilters
    \/ VAE_exportResults
    \/ \E c \in CriteriaSamples : SMILES_handleFilterChange(c)
    \/ SMILES_toggleFilters
    \/ SMILES_exportResults

Spec == Init /\ [][Next]_vars

(***************************************************************************)
(* VAEModule as the page runs it: training, generation and reset, each     *)
(* handler behind the condition under which its control is rendered and    *)
(* enabled.  A call of trainModel or generateMolecules is suspended at     *)
(* every await; vaeTasks holds the suspended calls with the values their   *)
(* closure captured, and a step resumes one of them up to its next await.  *)
(* The effect on generatedMolecules runs with the render that follows the  *)
(* change, before any other handler, and is part of the step.              *)
(***************************************************************************)
\* the product of two numbers, kept to two decimals
Times(a, b) == (a * b) \div 100

Min(a, b) == IF a <= b THEN a ELSE b

Max(a, b) == IF a >= b THEN a ELSE b

\* the generation parameters the sliders are left at: their initial values
VAE_parameters ==
    [latentDimensions |-> <<N(128)>>, temperature |-> <<D(0, 80)>>,
     diversityWeight |-> <<D(0, 50)>>]

\* calculateGenerationQuality
calculateGenerationQuality ==
    LET tempFactor ==
            Max(D(0, 10), Min(N(1), D(1, 20) - VAE_parameters.temperature[1]))
        dimFactor ==
            Min(N(1), (VAE_parameters.latentDimensions[1] * 100) \div N(256))
        diversityFactor == VAE_parameters.diversityWeight[1]
    IN  Times(Times(tempFactor, dimFactor), diversityFactor)

\* the values of Math.random() a generation is exercised on
RandomSamples == {D(0, 0), D(0, 50)}

\* the slider positions of epochs (50..500, step 50) and of batchSize
\* (1..20, step 1) the page is exercised on
EpochsSamples == {50, 100}

BatchSizeSamples == {2, 10}

\* the criteria the generator's filter is exercised on in this view: the
\* defaults, a molecular weight range that keeps the lightest generated
\* molecule, and no hydrogen bond donor
VaeCriteriaSamples ==
    { DefaultCriteria,
      [DefaultCriteria EXCEPT !.mwRange = <<N(0), N(210)>>],
      [DefaultCriteria EXCEPT !.hbdMax = N(0)] }

\* the molecules generateMolecules builds for a batch size and one
\* Math.random() value per molecule
VAE_selectedMolecules(size, random) ==
    LET quality == calculateGenerationQuality
        numMolecules == Min(size, Len(mockMolecules))
    IN  [j \in 1..numMolecules |->
            [mockMolecules[j] EXCEPT
                !.drugLikeness =
                    Min(D(0, 99), Times(mockMolecules[j].drugLikeness, quality)
                                  + Times(random[j], D(0, 10))),
                !.properties.mw =
                    Times(mockMolecules[j].properties.mw,
                          D(0, 80) + Times(VAE_parameters.temperature[1],
                                           D(0, 40))),
                !.properties.logp =
                    Times(mockMolecules[j].properties.logp,
                          D(0, 70) + Times(VAE_parameters.diversityWeight[1],
                                           D(0, 60)))]]

TrainTask(total) == [kind |-> "train", epoch |-> 1, totalEpochs |-> total]

GenerateTask(size) == [kind |-> "generate", i |-> 0, batchSize |-> size]

\* a sequence without its k-th element
Without(seq, k) ==
    [j \in 1..(Len(seq) - 1) |-> IF j < k THEN seq[j] ELSE seq[j + 1]]

\* Init of the page: VAEModule as mounted
VaeInit ==
    /\ activeTab = "vae"
    /\ generatedMolecules = <<>>
    /\ filteredMolecules = <<>>
    /\ vaeShowFilters = FALSE
    /\ batchResults = <<>>
    /\ filteredResults = <<>>
    /\ smilesShowFilters = FALSE
    /\ criteria = NoCriteria
    /\ toast = <<>>
    /\ download = NoDownload
    /\ thrown = "none"
    /\ modelStatus = "untrained"
    /\ isGenerating = FALSE
    /\ progress = N(0)
    /\ epochs = <<100>>
    /\ batchSize = <<10>>
    /\ vaeTasks = <<>>
    /\ panel = PANEL_initial
    /\ SMILES_runInitial
    /\ GAN_initial

\* what every step of the training and generation handlers leaves alone
VAE_runFrame ==
    /\ download' = NoDownload
    /\ thrown' = "none"
    /\ UNCHANGED <<activeTab, vaeShowFilters, batchResults, filteredResults,
                   smilesShowFilters, criteria, panel, smilesRun, ganRun>>

\* onValueChange={setEpochs}
VAE_setEpochs(value) ==
    /\ epochs' = <<value>>
    /\ toast' = <<>>
    /\ VAE_runFrame
    /\ UNCHANGED <<generatedMolecules, filteredMolecules, modelStatus,
                   isGenerating, progress, batchSize, vaeTasks>>

\* onValueChange={setBatchSize}
VAE_setBatchSize(value) ==
    /\ batchSize' = <<value>>
    /\ toast' = <<>>
    /\ VAE_runFrame
    /\ UNCHANGED <<generatedMolecules, filteredMolecules, modelStatus,
                   isGenerating, progress, epochs, vaeTasks>>

\* trainModel up to its first await
VAE_trainModel ==
    /\ modelStatus' = "training"
    /\ isGenerating' = TRUE
    /\ progress' = N(0)
    /\ vaeTasks' = Append(vaeTasks, TrainTask(epochs[1]))
    /\ toast' = <<>>
    /\ VAE_runFrame
    /\ UNCHANGED <<generatedMolecules, filteredMolecules, epochs, batchSize>>

\* trainModel from one await to the next: the body of the loop for the
\* task's epoch and, when the loop condition fails, the statements after
\* the loop
VAE_trainStep(k) ==
    /\ k \in DOMAIN vaeTasks
    /\ vaeTasks[k].kind = "train"
    /\ LET task == vaeTasks[k]
           stepIndex == (task.epoch * 4) \div task.totalEpochs
           epochToast ==
               IF stepIndex < 4
               THEN <<Toast("Training Epoch", "default")>>
               ELSE <<>>
           next == task.epoch + (task.totalEpochs \div 4)
       IN  /\ progress' = (task.epoch * 10000) \div task.totalEpochs
           /\ IF next <= task.totalEpochs
              THEN /\ vaeTasks' = [vaeTasks EXCEPT ![k].epoch = next]
                   /\ toast' = epochToast
                   /\ UNCHANGED <<modelStatus, isGenerating>>
              ELSE /\ vaeTasks' = Without(vaeTasks, k)
                   /\ modelStatus' = "trained"
                   /\ isGenerating' = FALSE
                   /\ toast' = epochToast \o
                                <<Toast("Training Complete", "default")>>
    /\ VAE_runFrame
    /\ UNCHANGED <<generatedMolecules, filteredMolecules, epochs, batchSize>>

\* VAE_generateMolecules without the early return for a model that is not
\* trained
VAE_generateMoleculesUnguarded ==
    /\ isGenerating' = TRUE
    /\ progress' = N(0)
    /\ generatedMolecules' = <<>>
    /\ filteredMolecules' = generatedMolecules'
    /\ vaeTasks' = Append(vaeTasks, GenerateTask(batchSize[1]))
    /\ toast' = <<>>
    /\ VAE_runFrame
    /\ UNCHANGED <<modelStatus, epochs, batchSize>>

\* generateMolecules up to its first await, or to its early return
VAE_generateMolecules ==
    /\ IF modelStatus # "trained"
       THEN /\ toast' = <<Toast("Model Not Trained", "destructive")>>
            /\ UNCHANGED <<generatedMolecules, filteredMolecules,
                           isGenerating, progress, vaeTasks>>
       ELSE /\ isGenerating' = TRUE
            /\ progress' = N(0)
            /\ generatedMolecules' = <<>>
            /\ filteredMolecules' = generatedMolecules'
            /\ vaeTasks' = Append(vaeTasks, GenerateTask(batchSize[1]))
            /\ toast' = <<>>
    /\ VAE_runFrame
    /\ UNCHANGED <<modelStatus, epochs, batchSize>>

\* VAE_generateStep without the effect on generatedMolecules after the
\* generation has finished
VAE_generateStepNoEffect(k, random) ==
    /\ k \in DOMAIN vaeTasks
    /\ vaeTasks[k].kind = "generate"
    /\ LET task == vaeTasks[k]
       IN  /\ progress' = N((task.i + 1) * 20)
           /\ IF task.i + 1 < 5
              THEN /\ vaeTasks' = [vaeTasks EXCEPT ![k].i = task.i + 1]
                   /\ toast' = <<Toast("VAE Generation", "default")>>
                   /\ UNCHANGED <<generatedMolecules, filteredMolecules,
                                  isGenerating>>
              ELSE /\ vaeTasks' = Without(vaeTasks, k)
                   /\ generatedMolecules' =
                          VAE_selectedMolecules(task.batchSize, random)
                   /\ UNCHANGED filteredMolecules
                   /\ isGenerating' = FALSE
                   /\ toast' = <<Toast("VAE Generation", "default"),
                                 Toast("Generation Complete", "default")>>
    /\ VAE_runFrame
    /\ UNCHANGED <<modelStatus, epochs, batchSize>>

\* generateMolecules from one await to the next: the body of the loop for
\* the task's i and, after the fifth step, the statements after the loop
VAE_generateStep(k, random) ==
    /\ k \in DOMAIN vaeTasks
    /\ vaeTasks[k].kind = "generate"
    /\ LET task == vaeTasks[k]
       IN  /\ progress' = N((task.i + 1) * 20)
           /\ IF task.i + 1 < 5
              THEN /\ vaeTasks' = [vaeTasks EXCEPT ![k].i = task.i + 1]
                   /\ toast' = <<Toast("VAE Generation", "default")>>
                   /\ UNCHANGED <<generatedMolecules, filteredMolecules,
                                  isGenerating>>
              ELSE /\ vaeTasks' = Without(vaeTasks, k)
                   /\ generatedMolecules' =
                          VAE_selectedMolecules(task.batchSize, random)
                   /\ filteredMolecules' = generatedMolecules'
                   /\ isGenerating' = FALSE
                   /\ toast' = <<Toast("VAE Generation", "default"),
                                 Toast("Generation Complete", "default")>>
    /\ VAE_runFrame
    /\ UNCHANGED <<modelStatus, epochs, batchSize>>

\* resetModel
VAE_resetModel ==
    /\ modelStatus' = "untrained"
    /\ generatedMolecules' = <<>>
    /\ filteredMolecules' = <<>>
    /\ progress' = N(0)
    /\ toast' = <<Toast("Model Reset", "default")>>
    /\ VAE_runFrame
    /\ UNCHANGED <<isGenerating, epochs, batchSize, vaeTasks>>

\* the conditions under which the controls are rendered and enabled
VAE_epochsEnabled == modelStatus = "untrained"

VAE_trainEnabled == ~(isGenerating \/ modelStatus = "trained")

VAE_generateEnabled == ~(isGenerating \/ modelStatus # "trained")

VAE_resetRendered == modelStatus = "trained"

VAE_resultsRendered == Len(generatedMolecules) > 0

VaeNext ==
    \/ \E value \in EpochsSamples : VAE_epochsEnabled /\ VAE_setEpochs(value)
    \/ \E value \in BatchSizeSamples : VAE_setBatchSize(value)
    \/ VAE_trainEnabled /\ VAE_trainModel
    \/ \E k \in DOMAIN vaeTasks : VAE_trainStep(k)
    \/ (VAE_generateEnabled \/ VAE_resultsRendered) /\ VAE_generateMolecules
    \/ \E k \in DOMAIN vaeTasks :
           \E random \in [1..Len(mockMolecules) -> RandomSamples] :
               VAE_generateStep(k, random)
    \/ VAE_resetRendered /\ VAE_resetModel
    \/ VAE_resultsRendered /\ VAE_toggleFilters
    \/ VAE_resultsRendered /\ VAE_exportResults
    \/ \E c \in VaeCriteriaSamples :
           VAE_resultsRendered /\ vaeShowFilters /\ VAE_handleFilterChange(c)

VaeSpec == VaeInit /\ [][VaeNext]_vars

(***************************************************************************)
(* Training of VAEModule for every position of the epochs slider: the      *)
(* training, generation and reset handlers of the page, without the        *)
(* results card.  A suspended trainModel resumes when its timer fires,     *)
(* which setTimeout guarantees: the steps of trainModel are weakly fair.   *)
(***************************************************************************)
\* EpochsSettings for a slider that starts at 3
EpochsSettingsFromThree == {3} \cup {50 * j : j \in 1..10}

\* the positions of the epochs slider: min 50, max 500, step 50
EpochsSettings == {50 * j : j \in 1..10}

TrainNext ==
    \/ \E value \in EpochsSettings : VAE_epochsEnabled /\ VAE_setEpochs(value)
    \/ \E value \in BatchSizeSamples : VAE_setBatchSize(value)
    \/ VAE_trainEnabled /\ VAE_trainModel
    \/ \E k \in DOMAIN vaeTasks : VAE_trainStep(k)
    \/ (VAE_generateEnabled \/ VAE_resultsRendered) /\ VAE_generateMolecules
    \/ \E k \in DOMAIN vaeTasks :
           \E random \in [1..Len(mockMolecules) -> RandomSamples] :
               VAE_generateStep(k, random)
    \/ VAE_resetRendered /\ VAE_resetModel

TrainFairSpec ==
    /\ VaeInit
    /\ [][TrainNext]_vars
    /\ WF_vars(\E k \in DOMAIN vaeTasks : VAE_trainStep(k))

(***************************************************************************)
(* SMILESModule as the page runs it: the two inputs, analyzeSingle and     *)
(* analyzeBatch behind the disabled condition of their buttons, and the    *)
(* filter of the batch results.  A call of analyzeSingle or analyzeBatch   *)
(* is suspended at every await; smilesTasks holds the suspended calls with *)
(* the values of their closure and their local variables.                  *)
(***************************************************************************)
\* the characters String.prototype.trim removes
Whitespace == {" ", "\t", "\n"}

\* text.trim()
Trim(text) ==
    LET kept == {i \in DOMAIN text : text[i] \notin Whitespace}
    IN  IF kept = {} THEN <<>>
        ELSE SubSeq(text,
                    CHOOSE i \in kept : \A j \in kept : i <= j,
                    CHOOSE i \in kept : \A j \in kept : i >= j)

\* text.split(sep)
Split(text, sep) ==
    LET cuts == {i \in DOMAIN text : text[i] = sep}
        k    == Cardinality(cuts)
        pos[j \in 0..(k + 1)] ==
            IF j = 0 THEN 0
            ELSE IF j = k + 1 THEN Len(text) + 1
            ELSE CHOOSE x \in cuts : Cardinality({y \in cuts : y < x}) = j - 1
    IN  [j \in 1..(k + 1) |-> SubSeq(text, pos[j - 1] + 1, pos[j] - 1)]

\* batchInput.trim().split('\n').filter(s => s.trim())
SMILES_smilesList(input) ==
    LET NotBlank(line) == Trim(line) # <<>>
    IN  SelectSeq(Split(Trim(input), "\n"), NotBlank)

\* the texts typed into the single input: a blank one, one that is too
\* short to be valid, a valid one with a leading blank
InputSamples ==
    { <<" ">>,
      <<"C","C","O">>,
      <<" ","c","1","c","c","c","c","c","1">> }

\* the texts typed into the batch text area: a blank one of two lines, two
\* identifiers around a blank line with blanks around the second, and one
\* line
BatchInputSamples ==
    { <<" ","\n"," ">>,
      <<"C","C","O","\n"," ","\n"," ","c","1","c","c","c","c","c","1"," ">>,
      <<"C",",","C",",","O">> }

\* the Math.random() values an analysis of the page is exercised on
DrawSamples ==
    { LeastDraws,
      [LeastDraws EXCEPT !.mw = N(500), !.heteroatoms = N(7),
                         !.violations = N(2), !.oxygens = N(1)] }

\* the criteria the analyzer's filter is exercised on in this view: the
\* defaults, a molecular weight range below 500, and the Lipinski switch
SmilesCriteriaSamples ==
    { DefaultCriteria,
      [DefaultCriteria EXCEPT !.mwRange = <<N(0), N(200)>>],
      [DefaultCriteria EXCEPT !.lipinskiCompliant = TRUE] }

SingleTask(input) == [kind |-> "single", inputSMILES |-> input]

BatchTask(list) == [kind |-> "batch", smilesList |-> list, results |-> <<>>]

\* Init of the page: SMILESModule as mounted
SmilesInit ==
    /\ activeTab = "smiles"
    /\ generatedMolecules = <<>>
    /\ filteredMolecules = <<>>
    /\ vaeShowFilters = FALSE
    /\ batchResults = <<>>
    /\ filteredResults = <<>>
    /\ smilesShowFilters = FALSE
    /\ criteria = NoCriteria
    /\ toast = <<>>
    /\ download = NoDownload
    /\ thrown = "none"
    /\ modelStatus = "untrained"
    /\ isGenerating = FALSE
    /\ progress = N(0)
    /\ epochs = <<100>>
    /\ batchSize = <<10>>
    /\ vaeTasks = <<>>
    /\ panel = PANEL_initial
    /\ SMILES_runInitial
    /\ GAN_initial

\* what every step of the input and analysis handlers leaves alone
SMILES_runFrame ==
    /\ download' = NoDownload
    /\ thrown' = "none"
    /\ UNCHANGED <<activeTab, generatedMolecules, filteredMolecules,
                   vaeShowFilters, smilesShowFilters, criteria, panel,
                   vaeRun, ganRun>>

\* onChange={(e) => setInputSMILES(e.target.value)}, and loadSample
SMILES_setInputSMILES(text) ==
    /\ inputSMILES' = text
    /\ toast' = <<>>
    /\ SMILES_runFrame
    /\ UNCHANGED <<batchResults, filteredResults, batchInput, analysis,
                   isAnalyzing, smilesTasks>>

\* onChange={(e) => setBatchInput(e.target.value)}
SMILES_setBatchInput(text) ==
    /\ batchInput' = text
    /\ toast' = <<>>
    /\ SMILES_runFrame
    /\ UNCHANGED <<batchResults, filteredResults, inputSMILES, analysis,
                   isAnalyzing, smilesTasks>>

\* analyzeSingle up to its await, or to its early return
SMILES_analyzeSingle ==
    /\ IF Trim(inputSMILES) = <<>>
       THEN /\ toast' = <<Toast("Error", "destructive")>>
            /\ UNCHANGED <<isAnalyzing, smilesTasks>>
       ELSE /\ isAnalyzing' = TRUE
            /\ smilesTasks' = Append(smilesTasks, SingleTask(inputSMILES))
            /\ toast' = <<>>
    /\ SMILES_runFrame
    /\ UNCHANGED <<batchResults, filteredResults, inputSMILES, batchInput,
                   analysis>>

\* analyzeSingle after its await
SMILES_analyzeSingleStep(k, draws) ==
    /\ k \in DOMAIN smilesTasks
    /\ smilesTasks[k].kind = "single"
    /\ LET result ==
               mockAnalyzeSMILES(Trim(smilesTasks[k].inputSMILES), draws)
       IN  /\ analysis' = result
           /\ toast' = IF result.isValid
                       THEN <<Toast("Analysis Complete", "default")>>
                       ELSE <<Toast("Invalid SMILES", "destructive")>>
    /\ isAnalyzing' = FALSE
    /\ smilesTasks' = Without(smilesTasks, k)
    /\ SMILES_runFrame
    /\ UNCHANGED <<batchResults, filteredResults, inputSMILES, batchInput>>

\* analyzeBatch up to its first await, or to its early return
SMILES_analyzeBatch ==
    /\ IF Trim(batchInput) = <<>>
       THEN /\ toast' = <<Toast("Error", "destructive")>>
            /\ UNCHANGED <<isAnalyzing, smilesTasks>>
       ELSE /\ isAnalyzing' = TRUE
            /\ smilesTasks' =
                   Append(smilesTasks, BatchTask(SMILES_smilesList(batchInput)))
            /\ toast' = <<>>
    /\ SMILES_runFrame
    /\ UNCHANGED <<batchResults, filteredResults, inputSMILES, batchInput,
                   analysis>>

\* SMILES_analyzeBatchStep storing the finished results as the filtered
\* list as well
SMILES_analyzeBatchStepSyncing(k, draws) ==
    /\ k \in DOMAIN smilesTasks
    /\ smilesTasks[k].kind = "batch"
    /\ LET task == smilesTasks[k]
           smiles == task.smilesList[Len(task.results) + 1]
           results ==
               Append(task.results, mockAnalyzeSMILES(Trim(smiles), draws))
       IN  IF Len(results) < Len(task.smilesList)
           THEN /\ smilesTasks' = [smilesTasks EXCEPT ![k].results = results]
                /\ toast' = <<>>
                /\ UNCHANGED <<batchResults, filteredResults, isAnalyzing>>
           ELSE /\ smilesTasks' = Without(smilesTasks, k)
                /\ batchResults' = results
                /\ filteredResults' = results
                /\ isAnalyzing' = FALSE
                /\ toast' = <<Toast("Batch Analysis Complete", "default")>>
    /\ SMILES_runFrame
    /\ UNCHANGED <<inputSMILES, batchInput, analysis>>

\* analyzeBatch from one await to the next: the push of the analysis of the
\* next line and, after the last line, the statements after the loop
SMILES_analyzeBatchStep(k, draws) ==
    /\ k \in DOMAIN smilesTasks
    /\ smilesTasks[k].kind = "batch"
    /\ LET task == smilesTasks[k]
           smiles == task.smilesList[Len(task.results) + 1]
           results ==
               Append(task.results, mockAnalyzeSMILES(Trim(smiles), draws))
       IN  IF Len(results) < Len(task.smilesList)
           THEN /\ smilesTasks' = [smilesTasks EXCEPT ![k].results = results]
                /\ toast' = <<>>
                /\ UNCHANGED <<batchResults, isAnalyzing>>
           ELSE /\ smilesTasks' = Without(smilesTasks, k)
                /\ batchResults' = results
                /\ isAnalyzing' = FALSE
                /\ toast' = <<Toast("Batch Analysis Complete", "default")>>
    /\ SMILES_runFrame
    /\ UNCHANGED <<filteredResults, inputSMILES, batchInput, analysis>>

\* SMILES_analyzeEnabled for buttons without the disabled attribute
SMILES_analyzeAlwaysEnabled == TRUE

\* the conditions under which the controls are rendered and enabled
SMILES_analyzeEnabled == ~isAnalyzing

SMILES_resultsRendered == Len(batchResults) > 0

SmilesNext ==
    \/ \E text \in InputSamples : SMILES_setInputSMILES(text)
    \/ \E text \in BatchInputSamples : SMILES_setBatchInput(text)
    \/ SMILES_analyzeEnabled /\ SMILES_analyzeSingle
    \/ \E k \in DOMAIN smilesTasks :
           \E draws \in DrawSamples : SMILES_analyzeSingleStep(k, draws)
    \/ SMILES_analyzeEnabled /\ SMILES_analyzeBatch
    \/ \E k \in DOMAIN smilesTasks :
           \E draws \in DrawSamples : SMILES_analyzeBatchStep(k, draws)
    \/ SMILES_resultsRendered /\ SMILES_toggleFilters
    \/ \E c \in SmilesCriteriaSamples :
           SMILES_resultsRendered /\ smilesShowFilters
           /\ SMILES_handleFilterChange(c)

SmilesSpec == SmilesInit /\ [][SmilesNext]_vars

(***************************************************************************)
(* PropertyFilter as the page runs it, mounted in the results card of the  *)
(* open view while showFilters is set.  panel holds the eight useState     *)
(* values of the mounted component; unmounting discards them and the next  *)
(* mount starts from the initial values.  The Slider component is not part *)
(* of the sources: what it hands to onValueChange is taken from the        *)
(* FilterCriteria invariant of the specification (min <= max) and from the *)
(* min, max and step it is given.                                          *)
(***************************************************************************)
\* the min, max, step props and the number of thumbs of every Slider
PANEL_sliders ==
    [mwRange   |-> [min |-> N(0),  max |-> N(1000), step |-> N(10),    thumbs |-> 2],
     logpRange |-> [min |-> N(-5), max |-> N(5),    step |-> D(0, 10), thumbs |-> 2],
     hbdMax    |-> [min |-> N(0),  max |-> N(10),   step |-> N(1),     thumbs |-> 1],
     hbaMax    |-> [min |-> N(0),  max |-> N(20),   step |-> N(1),     thumbs |-> 1],
     tpsaRange |-> [min |-> N(0),  max |-> N(200),  step |-> N(5),     thumbs |-> 2],
     qedMin    |-> [min |-> N(0),  max |-> N(1),    step |-> D(0, 1),  thumbs |-> 1],
     sasMax    |-> [min |-> N(1),  max |-> N(10),   step |-> D(0, 10), thumbs |-> 1]]

\* a value the Slider hands to onValueChange: one number per thumb, each on
\* a step between min and max, in ascending order
SliderDelivers(slider, value) ==
    /\ Len(value) = slider.thumbs
    /\ \A i \in DOMAIN value :
           /\ slider.min <= value[i]
           /\ value[i] <= slider.max
           /\ (value[i] - slider.min) % slider.step = 0
    /\ \A i, j \in DOMAIN value : i < j => value[i] <= value[j]

\* the thumb positions the panel is exercised on; the pair <<500, 100>> is
\* one no Slider delivers
PanelSamples ==
    [mwRange   |-> {<<N(0), N(1000)>>, <<N(500), N(500)>>,
                    <<N(500), N(100)>>},
     logpRange |-> {<<N(-5), N(5)>>, <<N(0), N(5)>>},
     hbdMax    |-> {<<N(10)>>, <<N(0)>>},
     hbaMax    |-> {<<N(20)>>, <<N(3)>>},
     tpsaRange |-> {<<N(0), N(200)>>, <<N(0), N(50)>>},
     qedMin    |-> {<<N(0)>>, <<D(0, 50)>>},
     sasMax    |-> {<<N(10)>>, <<N(1)>>}]

\* the collections the panel's host holds in this view: a finished
\* generation of three molecules, or a batch of three analyses
PanelMolecules ==
    VAE_selectedMolecules(10, [j \in 1..3 |-> D(0, 50)])

PanelAnalyses ==
    << mockAnalyzeSMILES(<<"c","1","c","c","c","c","c","1">>, LeastDraws),
       mockAnalyzeSMILES(<<"C","C","O">>,
           [LeastDraws EXCEPT !.mw = N(500), !.heteroatoms = N(7),
                              !.violations = N(2), !.oxygens = N(1)]),
       mockAnalyzeSMILES(<<"C","C","O">>,
           [LeastDraws EXCEPT !.mw = N(300), !.heteroatoms = N(3),
                              !.hba = TRUE, !.rotatable = N(9)]) >>

\* PropertyFilter is rendered
PANEL_mounted ==
    IF activeTab = "vae"
    THEN VAE_resultsRendered /\ vaeShowFilters
    ELSE Len(batchResults) > 0 /\ smilesShowFilters

PanelInit ==
    /\ activeTab \in {"vae", "smiles"}
    /\ generatedMolecules =
           IF activeTab = "vae" THEN PanelMolecules ELSE <<>>
    /\ filteredMolecules = generatedMolecules
    /\ vaeShowFilters = FALSE
    /\ batchResults = IF activeTab = "smiles" THEN PanelAnalyses ELSE <<>>
    /\ filteredResults = <<>>
    /\ smilesShowFilters = FALSE
    /\ criteria = NoCriteria
    /\ toast = <<>>
    /\ download = NoDownload
    /\ thrown = "none"
    /\ modelStatus = IF activeTab = "vae" THEN "trained" ELSE "untrained"
    /\ isGenerating = FALSE
    /\ progress = IF activeTab = "vae" THEN N(100) ELSE N(0)
    /\ epochs = <<100>>
    /\ batchSize = <<10>>
    /\ vaeTasks = <<>>
    /\ panel = PANEL_initial
    /\ SMILES_runInitial
    /\ GAN_initial

\* what the panel's own handlers leave alone: everything of the host
PANEL_frame ==
    /\ toast' = <<>>
    /\ download' = NoDownload
    /\ thrown' = "none"
    /\ UNCHANGED <<activeTab, generatedMolecules, filteredMolecules,
                   vaeShowFilters, batchResults, filteredResults,
                   smilesShowFilters, criteria, vaeRun, smilesRun, ganRun>>

\* the Show/Hide Filters button of the host: PropertyFilter is mounted with
\* its initial state or unmounted
PANEL_toggleFilters ==
    /\ IF activeTab = "vae"
       THEN /\ vaeShowFilters' = ~vaeShowFilters
            /\ UNCHANGED smilesShowFilters
       ELSE /\ smilesShowFilters' = ~smilesShowFilters
            /\ UNCHANGED vaeShowFilters
    /\ panel' = PANEL_initial
    /\ toast' = <<>>
    /\ download' = NoDownload
    /\ thrown' = "none"
    /\ UNCHANGED <<activeTab, generatedMolecules, filteredMolecules,
                   batchResults, filteredResults, criteria, vaeRun,
                   smilesRun, ganRun>>

\* onValueChange of the Slider of one field: setMwRange, setLogpRange,
\* setHbdMax, setHbaMax, setTpsaRange, setQedMin, setSasMax
PANEL_onValueChange(field, value) ==
    /\ SliderDelivers(PANEL_sliders[field], value)
    /\ panel' = [panel EXCEPT ![field] = value]
    /\ PANEL_frame

\* onCheckedChange={setLipinskiCompliant}
PANEL_onCheckedChange(checked) ==
    /\ panel' = [panel EXCEPT !.lipinskiCompliant = checked]
    /\ PANEL_frame

\* PANEL_resetFilters calling onFilterChange with the default criteria
PANEL_resetFiltersApplying ==
    /\ panel' = PANEL_initial
    /\ criteria' = DefaultCriteria
    /\ IF activeTab = "vae"
       THEN /\ filteredMolecules' =
                   VAE_filter(generatedMolecules, DefaultCriteria)
            /\ UNCHANGED filteredResults
       ELSE /\ filteredResults' = SMILES_filter(batchResults, DefaultCriteria)
            /\ UNCHANGED filteredMolecules
    /\ toast' = <<>>
    /\ download' = NoDownload
    /\ thrown' = "none"
    /\ UNCHANGED <<activeTab, generatedMolecules, vaeShowFilters,
                   batchResults, smilesShowFilters, vaeRun, smilesRun,
                   ganRun>>

\* PANEL_resetFilters without the call of setSasMax
PANEL_resetFiltersButSas ==
    /\ panel' = [PANEL_initial EXCEPT !.sasMax = panel.sasMax]
    /\ PANEL_frame

\* resetFilters
PANEL_resetFilters ==
    /\ panel' = PANEL_initial
    /\ PANEL_frame

\* PANEL_criteria with the molecular weight range of the criteria passed
\* before, once there is one
PANEL_criteriaKeepingRange(state) ==
    [mwRange |-> IF "mwRange" \in DOMAIN criteria THEN criteria.mwRange
                 ELSE <<state.mwRange[1], state.mwRange[2]>>,
     logpRange |-> <<state.logpRange[1], state.logpRange[2]>>,
     hbdMax |-> state.hbdMax[1],
     hbaMax |-> state.hbaMax[1],
     tpsaRange |-> <<state.tpsaRange[1], state.tpsaRange[2]>>,
     lipinskiCompliant |-> state.lipinskiCompliant,
     qedMin |-> state.qedMin[1],
     sasMax |-> state.sasMax[1]]

\* PANEL_criteria with the two ends of tpsaRange exchanged
PANEL_criteriaSwappedEnds(state) ==
    [mwRange |-> <<state.mwRange[1], state.mwRange[2]>>,
     logpRange |-> <<state.logpRange[1], state.logpRange[2]>>,
     hbdMax |-> state.hbdMax[1],
     hbaMax |-> state.hbaMax[1],
     tpsaRange |-> <<state.tpsaRange[2], state.tpsaRange[1]>>,
     lipinskiCompliant |-> state.lipinskiCompliant,
     qedMin |-> state.qedMin[1],
     sasMax |-> state.sasMax[1]]

\* the criteria object applyFilters builds of the panel's state
PANEL_criteria(state) ==
    [mwRange |-> <<state.mwRange[1], state.mwRange[2]>>,
     logpRange |-> <<state.logpRange[1], state.logpRange[2]>>,
     hbdMax |-> state.hbdMax[1],
     hbaMax |-> state.hbaMax[1],
     tpsaRange |-> <<state.tpsaRange[1], state.tpsaRange[2]>>,
     lipinskiCompliant |-> state.lipinskiCompliant,
     qedMin |-> state.qedMin[1],
     sasMax |-> state.sasMax[1]]

\* applyFilters: onFilterChange is the host's handleFilterChange
PANEL_applyFilters ==
    IF activeTab = "vae"
    THEN VAE_handleFilterChange(PANEL_criteria(panel))
    ELSE SMILES_handleFilterChange(PANEL_criteria(panel))

PanelNext ==
    \/ PANEL_toggleFilters
    \/ \E field \in DOMAIN PanelSamples :
           \E value \in PanelSamples[field] :
               PANEL_mounted /\ PANEL_onValueChange(field, value)
    \/ \E checked \in BOOLEAN :
           PANEL_mounted /\ PANEL_onCheckedChange(checked)
    \/ PANEL_mounted /\ PANEL_resetFilters
    \/ PANEL_mounted /\ PANEL_applyFilters

PanelSpec == PanelInit /\ [][PanelNext]_vars

(***************************************************************************)
(* The adversarial-network page: GANModule with its training loop as a     *)
(* suspended task.  ganTasks holds, for every call of startTraining that   *)
(* has not returned, the index i of the iteration it is waiting in.        *)
(***************************************************************************)
\* the calls of startTraining that may be suspended together
MaxLoops == 2

\* a TrainingMetrics of epoch e with generator loss g, discriminator loss
\* d, FID f, validity v, diversity s and uniqueness u
Metrics(e, g, d, f, v, s, u) ==
    [epoch |-> e, generatorLoss |-> g, discriminatorLoss |-> d, fid |-> f,
     validity |-> v, diversity |-> s, uniqueness |-> u]

\* mockTrainingData, the losses and scores in hundredths
mockTrainingData ==
    << Metrics(1, D(2, 45), D(1, 23), D(45, 20), 67, 45, 82),
       Metrics(50, D(1, 82), 95, D(32, 10), 78, 62, 89),
       Metrics(100, D(1, 34), 87, D(24, 50), 85, 71, 91),
       Metrics(150, 95, 92, D(18, 70), 91, 76, 94),
       Metrics(200, 73, 88, D(15, 20), 94, 81, 96) >>

\* `Epoch ${currentMetrics.epoch} Complete`
GAN_epochTitle(epoch) ==
    CASE epoch = 1 -> "Epoch 1 Complete"
      [] epoch = 50 -> "Epoch 50 Complete"
      [] epoch = 100 -> "Epoch 100 Complete"
      [] epoch = 150 -> "Epoch 150 Complete"
      [] epoch = 200 -> "Epoch 200 Complete"

\* the status set in iteration i > 0 from the generator losses
GAN_convergence(i) ==
    LET lossImprovement ==
            mockTrainingData[i].generatorLoss
            - mockTrainingData[i + 1].generatorLoss
    IN  IF lossImprovement > 10 THEN "converging"
        ELSE IF lossImprovement < -10 THEN "diverging"
        ELSE "stable"

\* Init of the page: GANModule as mounted
GanInit ==
    /\ activeTab = "gan"
    /\ generatedMolecules = <<>>
    /\ filteredMolecules = <<>>
    /\ vaeShowFilters = FALSE
    /\ batchResults = <<>>
    /\ filteredResults = <<>>
    /\ smilesShowFilters = FALSE
    /\ criteria = NoCriteria
    /\ toast = <<>>
    /\ download = NoDownload
    /\ thrown = "none"
    /\ modelStatus = "untrained"
    /\ isGenerating = FALSE
    /\ progress = N(0)
    /\ epochs = <<100>>
    /\ batchSize = <<10>>
    /\ vaeTasks = <<>>
    /\ panel = PANEL_initial
    /\ SMILES_runInitial
    /\ GAN_initial

\* what every step of the training handlers leaves alone
GAN_frame ==
    /\ download' = NoDownload
    /\ thrown' = "none"
    /\ UNCHANGED <<activeTab, generatedMolecules, filteredMolecules,
                   vaeShowFilters, batchResults, filteredResults,
                   smilesShowFilters, criteria, panel, vaeRun, smilesRun>>

\* startTraining up to its first await
GAN_startTraining ==
    /\ isTraining' = TRUE
    /\ currentEpoch' = 0
    /\ trainingHistory' = <<>>
    /\ metrics' = NoMetrics
    /\ toast' = <<Toast("GAN Training Started", "default")>>
    /\ ganTasks' = Append(ganTasks, [i |-> 0])
    /\ GAN_frame
    /\ UNCHANGED convergenceStatus

\* startTraining from one await to the next: iteration i of the loop and,
\* after the last one, the statements after the loop
GAN_trainingStep(k) ==
    /\ k \in DOMAIN ganTasks
    /\ LET i == ganTasks[k].i
           currentMetrics == mockTrainingData[i + 1]
           last == i + 1 = Len(mockTrainingData)
       IN  /\ currentEpoch' = currentMetrics.epoch
           /\ metrics' = currentMetrics
           /\ trainingHistory' = Append(trainingHistory, currentMetrics)
           /\ convergenceStatus' =
                  IF i > 0 THEN GAN_convergence(i) ELSE convergenceStatus
           /\ IF last
              THEN /\ isTraining' = FALSE
                   /\ toast' =
                          <<Toast(GAN_epochTitle(currentMetrics.epoch),
                                  "default"),
                            Toast("Training Complete", "default")>>
                   /\ ganTasks' = Without(ganTasks, k)
              ELSE /\ toast' =
                          <<Toast(GAN_epochTitle(currentMetrics.epoch),
                                  "default")>>
                   /\ ganTasks' = [ganTasks EXCEPT ![k].i = i + 1]
                   /\ UNCHANGED isTraining
    /\ GAN_frame

\* GAN_stopTraining ending the loops that are waiting
GAN_stopTrainingCancelling ==
    /\ isTraining' = FALSE
    /\ ganTasks' = <<>>
    /\ toast' = <<Toast("Training Stopped", "destructive")>>
    /\ GAN_frame
    /\ UNCHANGED <<currentEpoch, metrics, trainingHistory,
                   convergenceStatus>>

\* stopTraining
GAN_stopTraining ==
    /\ isTraining' = FALSE
    /\ toast' = <<Toast("Training Stopped", "destructive")>>
    /\ GAN_frame
    /\ UNCHANGED <<currentEpoch, metrics, trainingHistory,
                   convergenceStatus, ganTasks>>

\* GAN_startEnabled for a button without the disabled attribute
GAN_startAlwaysEnabled == TRUE

\* the conditions under which the buttons are enabled and rendered
GAN_startEnabled == ~isTraining

GAN_stopRendered == isTraining

GanNext ==
    \/ GAN_startEnabled /\ Len(ganTasks) < MaxLoops /\ GAN_startTraining
    \/ \E k \in DOMAIN ganTasks : GAN_trainingStep(k)
    \/ GAN_stopRendered /\ GAN_stopTraining

GanSpec == GanInit /\ [][GanNext]_vars

\* the timers of the waiting loops fire: every loop that waits goes on
GanFairSpec ==
    /\ GanInit
    /\ [][GanNext]_vars
    /\ \A k \in 1..MaxLoops : WF_vars(GAN_trainingStep(k))

(***************************************************************************)
(* Helpers of the properties.                                              *)
(***************************************************************************)
\* a filter was applied: criteria holds the argument of the last call
Applied == "mwRange" \in DOMAIN criteria

\* out is in, with some elements left out and the others in their order
IsSubsequence(out, in) ==
    \E f \in [1..Len(out) -> 1..Len(in)] :
        /\ \A i, j \in 1..Len(out) : i < j => f[i] < f[j]
        /\ \A i \in 1..Len(out) : out[i] = in[f[i]]

\* the lines of a text: the pieces between its line breaks
Lines(text) ==
    LET breaks == {i \in DOMAIN text : text[i] = "\n"}
        k      == Cardinality(breaks)
        pos[j \in 0..(k + 1)] ==
            IF j = 0 THEN 0
            ELSE IF j = k + 1 THEN Len(text) + 1
            ELSE CHOOSE x \in breaks : Cardinality({y \in breaks : y < x}) = j - 1
    IN  [j \in 1..(k + 1) |-> SubSeq(text, pos[j - 1] + 1, pos[j] - 1)]

\* the pieces of a text between the occurrences of a separator:
\* text.split(sep)
Pieces(text, sep) ==
    LET cuts == {i \in DOMAIN text : text[i] = sep}
        k    == Cardinality(cuts)
        pos[j \in 0..(k + 1)] ==
            IF j = 0 THEN 0
            ELSE IF j = k + 1 THEN Len(text) + 1
            ELSE CHOOSE x \in cuts : Cardinality({y \in cuts : y < x}) = j - 1
    IN  [j \in 1..(k + 1) |-> SubSeq(text, pos[j - 1] + 1, pos[j] - 1)]

\* the number of commas of a text
Commas(text) == Cardinality({i \in DOMAIN text : text[i] = ","})

(***************************************************************************)
(* C1.  The generator filter keeps exactly the molecules inside every      *)
(* bound, the bounds included: after handleFilterChange(criteria),         *)
(* filteredMolecules is generatedMolecules restricted to the molecules     *)
(* with mwRange[0] <= mw <= mwRange[1], logpRange[0] <= logp <=            *)
(* logpRange[1], hbd <= hbdMax, hba <= hbaMax, tpsaRange[0] <= tpsa <=     *)
(* tpsaRange[1] and drugLikeness >= qedMin; molecules of weight 180.16 and *)
(* 600 under mwRange [0, 500] leave the first one.                         *)
(***************************************************************************)
C1_InBounds(mol, c) ==
    /\ c.mwRange[1] <= mol.properties.mw
    /\ mol.properties.mw <= c.mwRange[2]
    /\ c.logpRange[1] <= mol.properties.logp
    /\ mol.properties.logp <= c.logpRange[2]
    /\ mol.properties.hbd <= c.hbdMax
    /\ mol.properties.hba <= c.hbaMax
    /\ c.tpsaRange[1] <= mol.properties.tpsa
    /\ mol.properties.tpsa <= c.tpsaRange[2]
    /\ mol.drugLikeness >= c.qedMin

\* C1: after the generator's handleFilterChange, filteredMolecules is exactly
\* the molecules of generatedMolecules inside every bound of the criteria
C1_GeneratorFilterExact ==
    (activeTab = "vae" /\ Applied) =>
        /\ filteredMolecules =
               SelectSeq(generatedMolecules, LAMBDA m : C1_InBounds(m, criteria))
        /\ ( /\ Len(generatedMolecules) = 2
             /\ generatedMolecules[1].properties.mw = D(180, 16)
             /\ generatedMolecules[2].properties.mw = N(600)
             /\ criteria = [DefaultCriteria EXCEPT !.mwRange = <<N(0), N(500)>>]
             => filteredMolecules = <<generatedMolecules[1]>> )

\* the example was filtered: 180.16 stays, 600 goes
C1_Witness ==
    /\ activeTab = "vae" /\ Applied
    /\ Len(generatedMolecules) = 2
    /\ generatedMolecules[1].properties.mw = D(180, 16)
    /\ generatedMolecules[2].properties.mw = N(600)
    /\ criteria = [DefaultCriteria EXCEPT !.mwRange = <<N(0), N(500)>>]
    /\ Len(filteredMolecules) = 1

(***************************************************************************)
(* C2.  The analyzer filter keeps exactly the results with                 *)
(* mwRange[0] <= molecularWeight <= mwRange[1], heteroatoms <= hbaMax and  *)
(* lipinski.violations <= 0 when lipinskiCompliant is on, <= 4 when off.   *)
(***************************************************************************)
C2_InBounds(result, c) ==
    /\ c.mwRange[1] <= result.molecularWeight
    /\ result.molecularWeight <= c.mwRange[2]
    /\ result.heteroatoms <= c.hbaMax
    /\ (c.lipinskiCompliant => result.lipinski.violations <= N(0))
    /\ (~c.lipinskiCompliant => result.lipinski.violations <= N(4))

\* C2: after the analyzer's handleFilterChange, filteredResults is exactly the
\* results of batchResults inside the three bounds the analyzer reads
C2_AnalyzerFilterExact ==
    (activeTab = "smiles" /\ Applied) =>
        filteredResults =
            SelectSeq(batchResults, LAMBDA r : C2_InBounds(r, criteria))

\* a filter kept a result at the upper end of the weight range and dropped
\* another one
C2_Witness ==
    /\ activeTab = "smiles" /\ Applied
    /\ Len(batchResults) = 2 /\ Len(filteredResults) = 1
    /\ filteredResults[1].molecularWeight = criteria.mwRange[2]

(***************************************************************************)
(* C3.  Stability: at both call sites the filtered list is the source list *)
(* with some records left out; the records kept are in the order of the    *)
(* source, none twice, none invented.                                      *)
(***************************************************************************)
C3_FilterStable ==
    Applied =>
        /\ IsSubsequence(filteredMolecules, generatedMolecules)
        /\ IsSubsequence(filteredResults, batchResults)

\* a filter kept two different results
C3_Witness ==
    /\ activeTab = "smiles" /\ Applied
    /\ Len(filteredResults) = 2
    /\ filteredResults[1] # filteredResults[2]

(***************************************************************************)
(* C4.  A step of handleFilterChange leaves the source collection as it    *)
(* is: generatedMolecules and batchResults keep length, order and content; *)
(* of the component state only the filtered list of the view changes.      *)
(***************************************************************************)
C4_SourceNotMutated ==
    [][ /\ (Applied' /\ VAE_handleFilterChange(criteria')) =>
              UNCHANGED <<generatedMolecules, batchResults, filteredResults,
                          vaeShowFilters, smilesShowFilters, activeTab>>
        /\ (Applied' /\ SMILES_handleFilterChange(criteria')) =>
              UNCHANGED <<generatedMolecules, batchResults, filteredMolecules,
                          vaeShowFilters, smilesShowFilters, activeTab>>
      ]_vars

\* a filter dropped a molecule of a source collection that still holds it
C4_Witness ==
    /\ activeTab = "vae" /\ Applied
    /\ Len(generatedMolecules) = 2
    /\ Len(filteredMolecules) < 2

(***************************************************************************)
(* C5.  Identity criteria: the default criteria, applied to a source       *)
(* collection whose fields lie within the default bounds, give the whole   *)
(* collection in its order, at both call sites.                            *)
(***************************************************************************)
C5_MoleculeWithinDefaults(mol) ==
    /\ N(0) <= mol.properties.mw /\ mol.properties.mw <= N(1000)
    /\ N(-5) <= mol.properties.logp /\ mol.properties.logp <= N(5)
    /\ mol.properties.hbd <= N(10)
    /\ mol.properties.hba <= N(20)
    /\ N(0) <= mol.properties.tpsa /\ mol.properties.tpsa <= N(200)
    /\ mol.drugLikeness >= N(0)

C5_ResultWithinDefaults(result) ==
    /\ N(0) <= result.molecularWeight /\ result.molecularWeight <= N(1000)
    /\ result.heteroatoms <= N(20)
    /\ result.lipinski.violations <= N(4)

\* C5: the default criteria return a source collection within the default
\* bounds whole and in order
C5_IdentityCriteria ==
    (Applied /\ criteria = DefaultCriteria) =>
        /\ (\A i \in DOMAIN generatedMolecules :
                C5_MoleculeWithinDefaults(generatedMolecules[i]))
            => filteredMolecules = generatedMolecules
        /\ (\A i \in DOMAIN batchResults :
                C5_ResultWithinDefaults(batchResults[i]))
            => filteredResults = batchResults

\* the default criteria were applied to two results, one with violations
C5_Witness ==
    /\ activeTab = "smiles" /\ Applied /\ criteria = DefaultCriteria
    /\ Len(batchResults) = 2
    /\ \E i \in DOMAIN batchResults : batchResults[i].lipinski.violations > N(0)
    /\ filteredResults = batchResults

(***************************************************************************)
(* C6.  Monotonicity of lipinskiCompliant in the analyzer filter: for the  *)
(* same batchResults and criteria differing only in lipinskiCompliant, the *)
(* result with it on is a sub-list of the result with it off, no longer,   *)
(* and lacks exactly the results of the latter with violations > 0.        *)
(***************************************************************************)
C6_LipinskiMonotone ==
    (activeTab = "smiles" /\ Applied) =>
        LET flipped ==
                SMILES_filter(batchResults,
                    [criteria EXCEPT !.lipinskiCompliant = ~criteria.lipinskiCompliant])
            on  == IF criteria.lipinskiCompliant THEN filteredResults ELSE flipped
            off == IF criteria.lipinskiCompliant THEN flipped ELSE filteredResults
        IN  /\ IsSubsequence(on, off)
            /\ Len(on) <= Len(off)
            /\ on = SelectSeq(off, LAMBDA r : ~(r.lipinski.violations > N(0)))

\* switching lipinskiCompliant on removed a result with violations
C6_Witness ==
    /\ activeTab = "smiles" /\ Applied /\ criteria.lipinskiCompliant
    /\ Len(filteredResults) <
           Len(SMILES_filter(batchResults,
                   [criteria EXCEPT !.lipinskiCompliant = FALSE]))

(***************************************************************************)
(* C7.  An inverted molecular weight range (min > max) matches nothing:    *)
(* the filtered list is empty at both call sites; the endpoints are taken  *)
(* as given, neither clamped nor swapped.                                  *)
(***************************************************************************)
C7_InvertedRangeEmpty ==
    (Applied /\ criteria.mwRange[1] > criteria.mwRange[2]) =>
        /\ filteredMolecules = <<>>
        /\ filteredResults = <<>>

\* the range [500, 100] was applied to a molecule of weight 180.16, which
\* lies between the two endpoints
C7_Witness ==
    /\ activeTab = "vae" /\ Applied
    /\ criteria.mwRange = <<N(500), N(100)>>
    /\ \E i \in DOMAIN generatedMolecules :
           /\ generatedMolecules[i].properties.mw >= N(100)
           /\ generatedMolecules[i].properties.mw <= N(500)
    /\ filteredMolecules = <<>>

(***************************************************************************)
(* C8.  CSV serialization: the text saved for n records is n + 1 lines     *)
(* with a line break between them and none at the end: the keys joined by  *)
(* commas, then per record its values joined by commas, numbers as decimal *)
(* text, booleans as true or false, strings as they are.  The record       *)
(* {SMILES: "CCO", Valid: true, MolecularWeight: 46.07} gives              *)
(* "SMILES,Valid,MolecularWeight\nCCO,true,46.07".                         *)
(***************************************************************************)
C8_ExampleData ==
    << << <<<<"S","M","I","L","E","S">>, StringValue(<<"C","C","O">>)>>,
          <<<<"V","a","l","i","d">>, BooleanValue(TRUE)>>,
          <<<<"M","o","l","e","c","u","l","a","r","W","e","i","g","h","t">>,
            NumberValue(D(46, 7))>> >> >>

C8_ExampleText ==
    <<"S","M","I","L","E","S",",","V","a","l","i","d",",","M","o","l","e",
      "c","u","l","a","r","W","e","i","g","h","t","\n","C","C","O",",","t",
      "r","u","e",",","4","6",".","0","7">>

C8_SmilesHeader ==
    <<"S","M","I","L","E","S",",","V","a","l","i","d",",","M","o","l","e",
      "c","u","l","a","r","W","e","i","g","h","t",",","F","o","r","m","u",
      "l","a",",","A","t","o","m","s",",","B","o","n","d","s",",","R","i",
      "n","g","s",",","A","r","o","m","a","t","i","c","R","i","n","g","s",
      ",","H","e","t","e","r","o","a","t","o","m","s",",","R","o","t","a",
      "t","a","b","l","e","B","o","n","d","s",",","L","i","p","i","n","s",
      "k","i","V","i","o","l","a","t","i","o","n","s">>

C8_VaeHeader ==
    <<"S","M","I","L","E","S",",","D","r","u","g","L","i","k","e","n","e",
      "s","s",",","M","o","l","e","c","u","l","a","r","W","e","i","g","h",
      "t",",","L","o","g","P",",","H","B","D",",","H","B","A",",","T","P",
      "S","A">>

C8_SmilesLine(r) ==
    r.smiles \o <<",">> \o BooleanText(r.isValid) \o <<",">>
    \o NumberText(r.molecularWeight) \o <<",">> \o r.formula \o <<",">>
    \o NumberText(r.atomCount) \o <<",">> \o NumberText(r.bondCount)
    \o <<",">> \o NumberText(r.rings) \o <<",">>
    \o NumberText(r.aromaticRings) \o <<",">> \o NumberText(r.heteroatoms)
    \o <<",">> \o NumberText(r.rotatable) \o <<",">>
    \o NumberText(r.lipinski.violations)

C8_VaeLine(m) ==
    m.smiles \o <<",">> \o NumberText(m.drugLikeness) \o <<",">>
    \o NumberText(m.properties.mw) \o <<",">> \o NumberText(m.properties.logp)
    \o <<",">> \o NumberText(m.properties.hbd) \o <<",">>
    \o NumberText(m.properties.hba) \o <<",">> \o NumberText(m.properties.tpsa)

\* C8: the saved text is the header line and one line per record, in the
\* order of the records, separated by line breaks, none at the end
C8_CsvShape ==
    /\ ToCSV(C8_ExampleData) = C8_ExampleText
    /\ download # NoDownload =>
          LET text  == download.text
              lines == Lines(text)
          IN  /\ text[Len(text)] # "\n"
              /\ activeTab = "smiles" =>
                    /\ Len(lines) = Len(batchResults) + 1
                    /\ lines[1] = C8_SmilesHeader
                    /\ \A i \in DOMAIN batchResults :
                           lines[i + 1] = C8_SmilesLine(batchResults[i])
              /\ activeTab = "vae" =>
                    /\ Len(lines) = Len(generatedMolecules) + 1
                    /\ lines[1] = C8_VaeHeader
                    /\ \A i \in DOMAIN generatedMolecules :
                           lines[i + 1] = C8_VaeLine(generatedMolecules[i])

\* two different analyses were exported
C8_Witness ==
    /\ activeTab = "smiles" /\ download # NoDownload
    /\ Len(batchResults) = 2 /\ batchResults[1] # batchResults[2]
    /\ Len(Lines(download.text)) = 3

(***************************************************************************)
(* C9.  Empty export: a step of exportResults taken while the source       *)
(* collection is empty saves no file, emits the 'No Data to Export' error  *)
(* notification and nothing else, and changes no component state.          *)
(***************************************************************************)
C9_EmptyExport ==
    [][ ( \/ (Len(batchResults) = 0 /\ SMILES_exportResults)
          \/ (Len(generatedMolecules) = 0 /\ VAE_exportResults) ) =>
            /\ download' = NoDownload
            /\ toast' = <<Toast("No Data to Export", "destructive")>>
            /\ UNCHANGED <<activeTab, generatedMolecules, filteredMolecules,
                           vaeShowFilters, batchResults, filteredResults,
                           smilesShowFilters, criteria>>
      ]_vars

\* the export of an empty batch was refused
C9_Witness ==
    /\ activeTab = "smiles" /\ Len(batchResults) = 0
    /\ toast = <<Toast("No Data to Export", "destructive")>>
    /\ download = NoDownload

(***************************************************************************)
(* C10.  After a filter was applied and while the filters are shown, the   *)
(* list saved as CSV is the filtered list, the one the view shows.         *)
(***************************************************************************)
C10_ExportsFilteredList ==
    (Applied /\ download # NoDownload) =>
        /\ (activeTab = "smiles" /\ smilesShowFilters) =>
              /\ Len(SMILES_displayed) > 0
              /\ download.text = ToCSV(SMILES_exportData(SMILES_displayed))
        /\ (activeTab = "vae" /\ vaeShowFilters) =>
              /\ Len(VAE_displayed) > 0
              /\ download.text = ToCSV(VAE_exportData(VAE_displayed))

(***************************************************************************)
(* C11.  Values are written verbatim, without quoting or escaping: in the  *)
(* saved text, the row of a record whose string fields hold k commas       *)
(* splits on "," into k more pieces than the header line, and the text     *)
(* holds no double quote.                                                  *)
(***************************************************************************)
C11_Quote == "\""

\* C11: a data row splits on "," into as many pieces as the header plus
\* the commas of the record's string fields, and no quote is added
C11_NoQuoting ==
    /\ download.name = "smiles_analysis_results.csv" =>
           LET lines == Lines(download.text)
           IN  /\ \A i \in DOMAIN batchResults :
                      Len(Pieces(lines[i + 1], ",")) =
                          Len(Pieces(lines[1], ","))
                          + Commas(batchResults[i].smiles)
                          + Commas(batchResults[i].formula)
               /\ \A j \in DOMAIN download.text :
                      download.text[j] # C11_Quote
    /\ download.name = "vae_generated_molecules.csv" =>
           LET lines == Lines(download.text)
           IN  /\ \A i \in DOMAIN generatedMolecules :
                      Len(Pieces(lines[i + 1], ",")) =
                          Len(Pieces(lines[1], ","))
                          + Commas(generatedMolecules[i].smiles)
               /\ \A j \in DOMAIN download.text :
                      download.text[j] # C11_Quote

\* the analyzer saved two records, one of them with two commas in its
\* identifier: its row has 13 pieces, the header 11
C11_Witness ==
    /\ download.name = "smiles_analysis_results.csv"
    /\ Len(batchResults) = 2
    /\ Commas(batchResults[1].smiles) = 0
    /\ Commas(batchResults[2].smiles) = 2
    /\ Len(Pieces(Lines(download.text)[1], ",")) = 11
    /\ Len(Pieces(Lines(download.text)[3], ",")) = 13

(***************************************************************************)
(* C12.  A failure inside the try block of exportResults is contained: the *)
(* handler ends with the single notification 'Export Failed', without      *)
(* 'Export Complete', and leaves the source and filtered collections as    *)
(* they were.                                                              *)
(***************************************************************************)
\* C12: a step that ends with a thrown export step emits exactly 'Export
\* Failed' and changes neither the collections nor the filter switches
C12_FailureContained ==
    [][ thrown' # "none" =>
            /\ toast' = <<Toast("Export Failed", "destructive")>>
            /\ UNCHANGED <<generatedMolecules, filteredMolecules,
                           batchResults, filteredResults, vaeShowFilters,
                           smilesShowFilters, criteria>> ]_vars

\* the generator's export threw while revoking the URL, after the file was
\* saved, with a filter result that differs from the source
C12_Witness ==
    /\ thrown = "revoke"
    /\ download.name = "vae_generated_molecules.csv"
    /\ Len(generatedMolecules) = 2
    /\ Len(filteredMolecules) = 1
    /\ toast = <<Toast("Export Failed", "destructive")>>

(***************************************************************************)
(* C13.  After resetModel the generated and the filtered collection are    *)
(* empty and stay empty while modelStatus is 'untrained'.  The page starts *)
(* untrained with both collections empty and resetModel is the only        *)
(* handler that sets 'untrained', so the statement is: in every state with *)
(* modelStatus 'untrained' both collections are empty.                     *)
(***************************************************************************)
\* C13: while modelStatus is 'untrained', generatedMolecules and
\* filteredMolecules are empty
C13_ResetDiscards ==
    modelStatus = "untrained" =>
        /\ generatedMolecules = <<>>
        /\ filteredMolecules = <<>>

(***************************************************************************)
(* C14.  The filter panel starts from, and resetFilters returns it to, the *)
(* state mwRange [0, 1000], logpRange [-5, 5], hbdMax 10, hbaMax 20,       *)
(* tpsaRange [0, 200], lipinskiCompliant false, qedMin 0, sasMax 10,       *)
(* whatever the sliders and the switch were set to before.                 *)
(***************************************************************************)
C14_Defaults ==
    /\ panel.mwRange = <<N(0), N(1000)>>
    /\ panel.logpRange = <<N(-5), N(5)>>
    /\ panel.hbdMax = <<N(10)>>
    /\ panel.hbaMax = <<N(20)>>
    /\ panel.tpsaRange = <<N(0), N(200)>>
    /\ panel.lipinskiCompliant = FALSE
    /\ panel.qedMin = <<N(0)>>
    /\ panel.sasMax = <<N(10)>>

\* C14: the panel is in the default state when the page starts, after
\* every mount and after every resetFilters
C14_ResetToDefaults ==
    /\ C14_Defaults
    /\ [][ (PANEL_toggleFilters \/ PANEL_resetFilters) => C14_Defaults' ]_vars

\* the panel was reset from a state in which every field had been moved:
\* all eight fields are at their defaults, and the criteria applied before
\* the reset show the state it was in
C14_Witness ==
    /\ PANEL_mounted
    /\ C14_Defaults
    /\ Applied
    /\ criteria.mwRange = <<N(500), N(500)>>
    /\ criteria.logpRange = <<N(0), N(5)>>
    /\ criteria.hbdMax = N(0)
    /\ criteria.hbaMax = N(3)
    /\ criteria.tpsaRange = <<N(0), N(50)>>
    /\ criteria.lipinskiCompliant
    /\ criteria.qedMin = D(0, 50)
    /\ criteria.sasMax = N(1)

(***************************************************************************)
(* C15.  Every applyFilters passes to onFilterChange a criteria value      *)
(* whose eight fields are the panel's state at that moment, whatever       *)
(* criteria were passed before.                                            *)
(***************************************************************************)
\* C15: the criteria an applyFilters step passes hold, field by field, the
\* state the panel had when the step was taken
C15_CriteriaFromState ==
    [][ PANEL_applyFilters =>
            /\ criteria'.mwRange = panel.mwRange
            /\ criteria'.logpRange = panel.logpRange
            /\ criteria'.hbdMax = panel.hbdMax[1]
            /\ criteria'.hbaMax = panel.hbaMax[1]
            /\ criteria'.tpsaRange = panel.tpsaRange
            /\ criteria'.lipinskiCompliant = panel.lipinskiCompliant
            /\ criteria'.qedMin = panel.qedMin[1]
            /\ criteria'.sasMax = panel.sasMax[1]
            /\ DOMAIN criteria' = DOMAIN panel ]_vars

\* criteria were applied that differ from the defaults in the range of
\* the molecular weight and in the switch, and the panel still shows them
C15_Witness ==
    /\ PANEL_mounted
    /\ Applied
    /\ criteria.mwRange = <<N(500), N(500)>>
    /\ criteria.mwRange = panel.mwRange
    /\ criteria.lipinskiCompliant
    /\ panel.lipinskiCompliant
    /\ criteria.hbaMax = N(20)
    /\ Len(filteredResults) < Len(batchResults)

C17_OtherConditions(result) ==
    /\ result.molecularWeight >= criteria.mwRange[1]
    /\ result.molecularWeight <= criteria.mwRange[2]
    /\ result.heteroatoms <= criteria.hbaMax

C17_NoViolation(result) ==
    C17_OtherConditions(result) /\ result.lipinski.violations = N(0)

\* C17: every analysis has 0 to 4 violations; switched off, the Lipinski
\* condition removes no analysis; switched on, it keeps those with none
C17_LipinskiSwitch ==
    /\ \A i \in DOMAIN batchResults :
           /\ batchResults[i].lipinski.violations >= N(0)
           /\ batchResults[i].lipinski.violations <= N(4)
    /\ (activeTab = "smiles" /\ Applied) =>
           filteredResults =
               IF criteria.lipinskiCompliant
               THEN SelectSeq(batchResults, C17_NoViolation)
               ELSE SelectSeq(batchResults, C17_OtherConditions)

\* with the switch off, analyses with two and with one violation are both
\* in the result
C17_Witness ==
    /\ activeTab = "smiles"
    /\ Applied
    /\ ~criteria.lipinskiCompliant
    /\ Len(filteredResults) = 2
    /\ filteredResults[1].lipinski.violations = N(2)
    /\ filteredResults[2].lipinski.violations = N(1)

(***************************************************************************)
(* C18.  At both export call sites every row holds the keys of the header  *)
(* row in the header's order: eleven for the analyzer, seven for the       *)
(* generator, for every source collection.                                 *)
(***************************************************************************)
\* C18: the keys of every row of the export data are the keys of its first
\* row, 11 or 7 of them, and the header line of a saved file is these keys
C18_SameKeys ==
    /\ LET data == SMILES_exportData(batchResults)
       IN  /\ \A i \in DOMAIN data :
                  /\ Keys(data[i]) = Keys(data[1])
                  /\ Len(data[i]) = 11
           /\ download.name = "smiles_analysis_results.csv" =>
                  \A i \in DOMAIN data :
                      Pieces(Lines(download.text)[1], ",") = Keys(data[i])
    /\ LET data == VAE_exportData(generatedMolecules)
       IN  /\ \A i \in DOMAIN data :
                  /\ Keys(data[i]) = Keys(data[1])
                  /\ Len(data[i]) = 7
           /\ download.name = "vae_generated_molecules.csv" =>
                  \A i \in DOMAIN data :
                      Pieces(Lines(download.text)[1], ",") = Keys(data[i])

\* the analyzer saved a valid and an invalid analysis
C18_Witness ==
    /\ download.name = "smiles_analysis_results.csv"
    /\ thrown = "none"
    /\ Len(batchResults) = 2
    /\ batchResults[1].isValid
    /\ ~batchResults[2].isValid
    /\ Len(Lines(download.text)) = 3

(***************************************************************************)
(* C19.  The filter is deterministic and idempotent: its output is fixed   *)
(* by the record list and the criteria, whatever was applied before, and   *)
(* applying the same criteria to the output returns the output.            *)
(***************************************************************************)
\* C19: after any sequence of filter calls the filtered list is the filter
\* of the source by the last criteria, and filtering it by the same
\* criteria again leaves it as it is
C19_DeterministicIdempotent ==
    Applied =>
        IF activeTab = "vae"
        THEN /\ filteredMolecules = VAE_filter(generatedMolecules, criteria)
             /\ VAE_filter(filteredMolecules, criteria) = filteredMolecules
        ELSE /\ filteredResults = SMILES_filter(batchResults, criteria)
             /\ SMILES_filter(filteredResults, criteria) = filteredResults

\* the generator's filter left one of two molecules, and criteria other
\* than the defaults were the last applied
C19_Witness ==
    /\ activeTab = "vae"
    /\ Applied
    /\ criteria # DefaultCriteria
    /\ Len(generatedMolecules) = 2
    /\ Len(filteredMolecules) = 1
    /\ filteredMolecules[1] = generatedMolecules[2]

(***************************************************************************)
(* C20.  The filter is total: for every criteria value, inverted ranges    *)
(* and negative maxima included, and every record list, handleFilterChange *)
(* completes with a list and without a notification; a negative hbaMax     *)
(* yields the empty list, as no record has a negative acceptor or          *)
(* heteroatom count.                                                       *)
(***************************************************************************)
\* C20: the filter handler of the open view can be taken with every
\* criteria value, its result is a list of source records, and it is
\* empty when hbaMax is negative
C20_FilterTotal ==
    /\ \A c \in CriteriaSamples :
           IF activeTab = "vae"
           THEN ENABLED VAE_handleFilterChange(c)
           ELSE ENABLED SMILES_handleFilterChange(c)
    /\ \A i \in DOMAIN generatedMolecules :
           generatedMolecules[i].properties.hba >= N(0)
    /\ \A i \in DOMAIN batchResults : batchResults[i].heteroatoms >= N(0)
    /\ Applied =>
           /\ IsSubsequence(filteredMolecules, generatedMolecules)
           /\ IsSubsequence(filteredResults, batchResults)
           /\ criteria.hbaMax < N(0) =>
                  /\ filteredMolecules = <<>>
                  /\ filteredResults = <<>>

\* the analyzer's filter ran with hbaMax -1 on two analyses, the first
\* without heteroatoms, and left the empty list
C20_Witness ==
    /\ activeTab = "smiles"
    /\ Applied
    /\ criteria.hbaMax = N(-1)
    /\ criteria.mwRange = <<N(0), N(1000)>>
    /\ Len(batchResults) = 2
    /\ batchResults[1].heteroatoms = N(0)
    /\ filteredResults = <<>>
    /\ toast = <<>>

(***************************************************************************)
(* C21.  The fields a call site does not read have no influence on its     *)
(* result: the generator's filter gives the same list for criteria that    *)
(* differ in lipinskiCompliant and sasMax only, the analyzer's for         *)
(* criteria that differ in logpRange, hbdMax, tpsaRange, qedMin and sasMax *)
(* only.                                                                   *)
(***************************************************************************)
\* the criteria that agree with c in every field the generator reads
C21_SameForGenerator(c) ==
    { [c EXCEPT !.lipinskiCompliant = lip, !.sasMax = sas] :
        lip \in BOOLEAN, sas \in {N(1), D(5, 50), N(10)} }

\* the criteria that agree with c in every field the analyzer reads
C21_SameForAnalyzer(c) ==
    { [c EXCEPT !.logpRange = logp, !.hbdMax = hbd, !.tpsaRange = tpsa,
                !.qedMin = qed, !.sasMax = sas] :
        logp \in {<<N(-5), N(5)>>, <<N(5), N(-5)>>},
        hbd \in {N(10), N(-1)},
        tpsa \in {<<N(0), N(200)>>, <<N(0), N(0)>>},
        qed \in {N(0), N(1)},
        sas \in {N(1), N(10)} }

\* C21: the list the last filter call left is the list the filter gives
\* for every criteria that agrees with the applied one in the fields the
\* call site reads
C21_UnreadFieldsIgnored ==
    Applied =>
        IF activeTab = "vae"
        THEN \A c \in C21_SameForGenerator(criteria) :
                 VAE_filter(generatedMolecules, c) = filteredMolecules
        ELSE \A c \in C21_SameForAnalyzer(criteria) :
                 SMILES_filter(batchResults, c) = filteredResults

\* the generator's filter ran with lipinskiCompliant on and kept a
\* molecule of weight 600
C21_Witness ==
    /\ activeTab = "vae"
    /\ Applied
    /\ criteria.lipinskiCompliant
    /\ Len(generatedMolecules) = 2
    /\ generatedMolecules[2] = heavyMolecule
    /\ filteredMolecules = generatedMolecules

(***************************************************************************)
(* C22.  In the analyzer view only handleFilterChange changes              *)
(* filteredResults: a finished analyzeBatch replaces batchResults and      *)
(* leaves filteredResults as it was.  filteredResults is therefore empty   *)
(* until the first filter call, and after a new batch it can hold          *)
(* analyses that are not in batchResults.                                  *)
(***************************************************************************)
\* C22: a step that changes filteredResults is a handleFilterChange, a
\* step that changes batchResults leaves filteredResults alone, and
\* filteredResults is empty as long as no filter was applied
C22_OnlyFilterSetsFiltered ==
    [][ /\ filteredResults' # filteredResults =>
               \E c \in SmilesCriteriaSamples : SMILES_handleFilterChange(c)
        /\ batchResults' # batchResults => filteredResults' = filteredResults
        /\ ~Applied' => filteredResults' = <<>> ]_vars

\* a second batch has finished after a filter call on the first one: the
\* filtered list holds an analysis of the first batch and is no
\* subsequence of the batch results
C22_Witness ==
    /\ Applied
    /\ smilesTasks = <<>>
    /\ Len(batchResults) = 1
    /\ batchResults[1].smiles = <<"C",",","C",",","O">>
    /\ Len(filteredResults) = 2
    /\ filteredResults[1].smiles = <<"C","C","O">>
    /\ ~IsSubsequence(filteredResults, batchResults)
    /\ toast = <<Toast("Batch Analysis Complete", "default")>>

(***************************************************************************)
(* C23.  In the generator view the effect on generatedMolecules sets       *)
(* filteredMolecules to the whole of generatedMolecules whenever           *)
(* generatedMolecules changes: filteredMolecules is always a subsequence   *)
(* of generatedMolecules, and a regeneration or a reset drops the filter   *)
(* applied before.                                                         *)
(***************************************************************************)
\* C23: filteredMolecules is a subsequence of generatedMolecules in every
\* state, and equal to it after every step that changes generatedMolecules
C23_EffectResetsFiltered ==
    /\ [](IsSubsequence(filteredMolecules, generatedMolecules))
    /\ [][ generatedMolecules' # generatedMolecules =>
               filteredMolecules' = generatedMolecules' ]_vars

\* a generation has finished after a filter that kept one molecule: the
\* criteria of that filter are still the last applied, and the filtered
\* list is the whole new generation
C23_Witness ==
    /\ Applied
    /\ criteria.mwRange = <<N(0), N(210)>>
    /\ Len(generatedMolecules) = 3
    /\ filteredMolecules = generatedMolecules
    /\ Len(VAE_filter(generatedMolecules, criteria)) = 1
    /\ modelStatus = "trained"
    /\ vaeTasks = <<>>

(***************************************************************************)
(* C26.  trainModel terminates for every epochs setting from 50 to 500 in  *)
(* steps of 50: epoch advances from 1 by floor(epochs / 4), at least 12,   *)
(* the loop body runs at most five times, and the call ends with           *)
(* modelStatus 'trained' and isGenerating false.  modelStatus moves from   *)
(* 'untrained' to 'training', from 'training' to 'trained' and, by         *)
(* resetModel, from 'trained' to 'untrained', and in no other way.         *)
(***************************************************************************)
\* every suspended trainModel is before one of its first five iterations,
\* with an increment of at least 12
C26_AtMostFive ==
    \A k \in DOMAIN vaeTasks :
        vaeTasks[k].kind = "train" =>
            LET increment == vaeTasks[k].totalEpochs \div 4
            IN  /\ increment >= 12
                /\ vaeTasks[k].epoch \in {1 + j * increment : j \in 0..4}
                /\ 1 + 5 * increment > vaeTasks[k].totalEpochs

C26_StatusMoves ==
    { <<"untrained", "training">>, <<"training", "trained">>,
      <<"trained", "untrained">> }

\* C26: a training runs at most five iterations, ends with 'trained' and
\* isGenerating false, always ends, and modelStatus moves in the cycle
\* untrained, training, trained only
C26_TrainingTerminates ==
    /\ []C26_AtMostFive
    /\ [][ modelStatus' # modelStatus =>
               /\ <<modelStatus, modelStatus'>> \in C26_StatusMoves
               /\ modelStatus' = "trained" => ~isGenerating' ]_vars
    /\ (modelStatus = "training") ~>
           (modelStatus = "trained" /\ ~isGenerating)

\* a training of 50 epochs has ended after its fifth iteration, the one of
\* epoch 49
C26_Witness ==
    /\ epochs = <<50>>
    /\ modelStatus = "trained"
    /\ ~isGenerating
    /\ progress = N(98)
    /\ vaeTasks = <<>>
    /\ toast = <<Toast("Training Epoch", "default"),
                 Toast("Training Complete", "default")>>

(***************************************************************************)
(* C27.  generateMolecules called while modelStatus is not 'trained' emits *)
(* 'Model Not Trained' and changes nothing.  Called while trained, it      *)
(* first empties generatedMolecules, and it finishes with the first        *)
(* min(batchSize, 3) molecules of mockMolecules, in their order, and with  *)
(* isGenerating false; batchSize is the value at the call.                 *)
(***************************************************************************)
\* the step ends a generation
C27_Finishes ==
    /\ toast' = <<Toast("VAE Generation", "default"),
                  Toast("Generation Complete", "default")>>
    /\ Len(vaeTasks) = 1
    /\ vaeTasks' = <<>>

\* C27: a call that is refused leaves the view as it was, a call that is
\* accepted empties generatedMolecules and keeps the batch size, and the
\* end of a generation stores min(batchSize, 3) mock molecules in order
C27_GenerateGuarded ==
    [][ /\ (modelStatus # "trained" /\ VAE_generateMolecules) =>
               /\ toast' = <<Toast("Model Not Trained", "destructive")>>
               /\ UNCHANGED <<generatedMolecules, filteredMolecules,
                              progress, isGenerating, modelStatus, vaeTasks>>
        /\ (modelStatus = "trained" /\ VAE_generateMolecules) =>
               /\ generatedMolecules' = <<>>
               /\ isGenerating'
               /\ vaeTasks'[Len(vaeTasks')].batchSize = batchSize[1]
        /\ C27_Finishes =>
               LET size == vaeTasks[1].batchSize
                   count == IF size <= 3 THEN size ELSE 3
               IN  /\ Len(generatedMolecules') = count
                   /\ \A j \in 1..count :
                          /\ generatedMolecules'[j].id = mockMolecules[j].id
                          /\ generatedMolecules'[j].smiles =
                                 mockMolecules[j].smiles
                   /\ ~isGenerating' ]_vars

\* a call was refused in a view that holds three molecules under an
\* untrained model
C27_Witness ==
    /\ toast = <<Toast("Model Not Trained", "destructive")>>
    /\ modelStatus = "untrained"
    /\ Len(generatedMolecules) = 3
    /\ ~isGenerating

\* a generation called with batch size 2 has ended with the first two
\* mock molecules, after the slider was moved to 10 during the generation
C27_WitnessFinished ==
    /\ toast = <<Toast("VAE Generation", "default"),
                 Toast("Generation Complete", "default")>>
    /\ Len(generatedMolecules) = 2
    /\ batchSize = <<10>>

(***************************************************************************)
(* C28.  The panel filters on Apply only: resetFilters and the changes of  *)
(* the sliders and of the switch do not call onFilterChange, so the        *)
(* filtered list and the count 'Showing X of N' of the panel stay those of *)
(* the criteria applied last until Apply is pressed again.                 *)
(***************************************************************************)
\* the X and the N of 'Showing X of N molecules'
C28_Showing ==
    IF activeTab = "vae"
    THEN <<Len(filteredMolecules), Len(generatedMolecules)>>
    ELSE <<Len(filteredResults), Len(batchResults)>>

\* C28: a step that changes a filtered list, the applied criteria or the
\* count shown is an applyFilters; every other step of the panel leaves
\* them alone
C28_FilterOnApplyOnly ==
    [][ (\/ filteredMolecules' # filteredMolecules
         \/ filteredResults' # filteredResults
         \/ criteria' # criteria
         \/ C28_Showing' # C28_Showing) => PANEL_applyFilters ]_vars

\* the panel is back at its defaults while the generator's list and count
\* are those of the criteria applied before: 0 of 3
C28_Witness ==
    /\ activeTab = "vae"
    /\ PANEL_mounted
    /\ panel = PANEL_initial
    /\ Applied
    /\ criteria.mwRange = <<N(500), N(500)>>
    /\ criteria.hbdMax = N(10)
    /\ C28_Showing = <<0, 3>>

(***************************************************************************)
(* C29.  The analyzer has at most one analysis in flight: analyzeSingle    *)
(* and analyzeBatch set isAnalyzing before their first wait and clear it   *)
(* when done, and both buttons are disabled while it is set.  A blank      *)
(* input makes either of them return with the error notification only.  A  *)
(* completed batch has one result for every line of the input that is not  *)
(* blank, in the order of the lines.                                       *)
(***************************************************************************)
\* the lines of a text that hold more than white space
C29_NonBlankLines(text) ==
    LET Holds(line) == \E i \in DOMAIN line : line[i] \notin Whitespace
    IN  SelectSeq(Lines(text), Holds)

C29_OneInFlight ==
    /\ Len(smilesTasks) <= 1
    /\ isAnalyzing <=> smilesTasks # <<>>

\* a call on a blank input notifies the error and changes nothing else
C29_BlankRefused ==
    (\/ SMILES_analyzeSingle /\ C29_NonBlankLines(inputSMILES) = <<>>
     \/ SMILES_analyzeBatch /\ C29_NonBlankLines(batchInput) = <<>>)
    => /\ toast' = <<Toast("Error", "destructive")>>
       /\ UNCHANGED <<isAnalyzing, analysis, batchResults, filteredResults,
                      smilesTasks>>

\* an analysis that starts sets isAnalyzing; a batch takes the lines of
\* the text area that are not blank, up to the white space around them
C29_Starts ==
    Len(smilesTasks') > Len(smilesTasks)
    => /\ isAnalyzing'
       /\ LET task == smilesTasks'[Len(smilesTasks')]
          IN  task.kind = "batch"
              => LET lines == C29_NonBlankLines(batchInput)
                 IN  /\ Len(task.smilesList) = Len(lines)
                     /\ \A i \in DOMAIN lines :
                            Trim(task.smilesList[i]) = Trim(lines[i])

\* an analysis that ends clears isAnalyzing; a batch leaves one result for
\* each of its lines, in their order
C29_Ends ==
    Len(smilesTasks') < Len(smilesTasks)
    => /\ ~isAnalyzing'
       /\ LET task == smilesTasks[1]
          IN  task.kind = "batch"
              => /\ Len(batchResults') = Len(task.smilesList)
                 /\ \A i \in DOMAIN task.smilesList :
                        batchResults'[i].smiles = Trim(task.smilesList[i])

\* C29: at most one analysis is in flight and isAnalyzing is set exactly
\* while it is; a call on a blank input only notifies the error; a batch
\* ends with one result for every line that is not blank, in input order
C29_OneAnalysisInFlight ==
    /\ []C29_OneInFlight
    /\ [][C29_BlankRefused /\ C29_Starts /\ C29_Ends]_vars

\* the batch of two identifiers around a blank line has ended with the two
\* results in the order of the lines
C29_Witness ==
    /\ batchInput = <<"C","C","O","\n"," ","\n",
                      " ","c","1","c","c","c","c","c","1"," ">>
    /\ smilesTasks = <<>>
    /\ ~isAnalyzing
    /\ Len(batchResults) = 2
    /\ batchResults[1].smiles = <<"C","C","O">>
    /\ batchResults[2].smiles = <<"c","1","c","c","c","c","c","1">>
    /\ toast = <<Toast("Batch Analysis Complete", "default")>>

\* a call of analyzeBatch on a text area of blank lines was refused after
\* a batch had ended
C29_WitnessBlank ==
    /\ batchInput = <<" ","\n"," ">>
    /\ Len(batchResults) = 2
    /\ smilesTasks = <<>>
    /\ ~isAnalyzing
    /\ toast = <<Toast("Error", "destructive")>>

(***************************************************************************)
(* C24.  stopTraining of the adversarial-network page only sets isTraining *)
(* to false: the loop of startTraining that is waiting is not cancelled.   *)
(* After a stop the loop still appends every remaining mock epoch to       *)
(* trainingHistory, updates currentEpoch and metrics, and in the end       *)
(* notifies 'Training Complete' and sets isTraining to false again.        *)
(***************************************************************************)
\* a stop clears isTraining and leaves the loops and what they write alone
C24_StopOnlyClearsFlag ==
    toast' = <<Toast("Training Stopped", "destructive")>>
    => /\ ~isTraining'
       /\ UNCHANGED <<ganTasks, currentEpoch, metrics, trainingHistory,
                      convergenceStatus>>

\* a step that is neither a start nor a stop is the next iteration of a
\* waiting loop, whatever isTraining is: the next mock epoch is appended
\* and shown, and after the fifth the loop notifies 'Training Complete'
\* and clears isTraining
C24_LoopGoesOn ==
    toast'[1].title \notin {"GAN Training Started", "Training Stopped"}
    => \E k \in DOMAIN ganTasks :
           LET i == ganTasks[k].i
               m == mockTrainingData[i + 1]
           IN  /\ trainingHistory' = Append(trainingHistory, m)
               /\ currentEpoch' = m.epoch
               /\ metrics' = m
               /\ IF i = 4
                  THEN /\ ~isTraining'
                       /\ toast'[Len(toast')] =
                              Toast("Training Complete", "default")
                       /\ Len(ganTasks') = Len(ganTasks) - 1
                  ELSE /\ isTraining' = isTraining
                       /\ ganTasks' = [ganTasks EXCEPT ![k].i = i + 1]

\* isTraining is false while a loop is waiting: after a stop, or after the
\* end of another loop
C24_Stopped == ~isTraining /\ ganTasks # <<>>

C24_Completed ==
    /\ ~isTraining
    /\ toast # <<>>
    /\ toast[Len(toast)] = Toast("Training Complete", "default")

\* C24: a stop only clears isTraining; the waiting loop goes on with every
\* remaining mock epoch and a stopped training leads to the notification
\* 'Training Complete' with isTraining false
C24_StopDoesNotCancel ==
    /\ [][C24_StopOnlyClearsFlag /\ C24_LoopGoesOn]_vars
    /\ C24_Stopped ~> C24_Completed

\* the only loop has gone on to epoch 100 after a stop: isTraining is
\* false, the history holds the first three mock epochs
C24_Witness ==
    /\ ~isTraining
    /\ ganTasks = <<[i |-> 3]>>
    /\ toast = <<Toast("Epoch 100 Complete", "default")>>
    /\ currentEpoch = 100
    /\ metrics = mockTrainingData[3]
    /\ trainingHistory = SubSeq(mockTrainingData, 1, 3)

(***************************************************************************)
(* C25.  Training runs of the adversarial-network page can overlap: Start  *)
(* is disabled only while isTraining is true, so after stopTraining, or    *)
(* after the end of an earlier loop, startTraining can begin while a loop  *)
(* is still waiting.  The loops then both append to trainingHistory, which *)
(* can hold repeated or non-increasing epochs and more than five entries.  *)
(* A single uninterrupted run ends with the epochs 1, 50, 100, 150, 200.   *)
(***************************************************************************)
C25_Epochs(history) == [j \in DOMAIN history |-> history[j].epoch]

\* the epochs of the first n entries of mockTrainingData
C25_FirstEpochs(n) == SubSeq(<<1, 50, 100, 150, 200>>, 1, n)

\* a training starts only while isTraining is false, a waiting loop or
\* not, and starts from an empty history
C25_StartsWhenNotTraining ==
    toast' = <<Toast("GAN Training Started", "default")>>
    => /\ ~isTraining
       /\ isTraining'
       /\ ganTasks' = Append(ganTasks, [i |-> 0])
       /\ trainingHistory' = <<>>

\* the iterations a lone loop has done; five after its end
C25_Done(tasks) == IF tasks = <<>> THEN 5 ELSE tasks[1].i

\* while the loop that holds the history of its own iterations stays the
\* only one, the history stays the mock epochs of its iterations, in
\* order: five of them at its end
C25_SingleRun ==
    (/\ Len(ganTasks) = 1
     /\ Len(ganTasks') <= 1
     /\ C25_Epochs(trainingHistory) = C25_FirstEpochs(ganTasks[1].i))
    => /\ C25_Epochs(trainingHistory') = C25_FirstEpochs(C25_Done(ganTasks'))
       /\ ganTasks' = <<>> => trainingHistory' = mockTrainingData

\* C25: Start needs isTraining false only, so a training can start while a
\* loop is waiting; a loop that runs alone from its start to its end
\* leaves exactly the epochs 1, 50, 100, 150, 200
C25_RunsCanOverlap ==
    [][C25_StartsWhenNotTraining /\ C25_SingleRun]_vars

\* two loops have ended, the second started after a stop during the
\* first: nine entries, with epochs that repeat and that go down
C25_Witness ==
    /\ ganTasks = <<>>
    /\ ~isTraining
    /\ C25_Epochs(trainingHistory) =
           <<50, 1, 100, 50, 150, 100, 200, 150, 200>>

\* a training has started while the loop of a stopped one is waiting
C25_WitnessOverlap ==
    /\ isTraining
    /\ ganTasks = <<[i |-> 1], [i |-> 0]>>
    /\ trainingHistory = <<>>
    /\ toast = <<Toast("GAN Training Started", "default")>>

=============================================================================
